---- MODULE Spec2Model ----
(***************************************************************************)
(* Model of the Elliptec serial protocol engine of MilnerLab/Devices.      *)
(*                                                                         *)
(* The threaded engine (src/elliptec/elliptec_trace.py) is modelled as two *)
(* processes sharing the receive queue _rx_lines: the reader thread        *)
(* (_rx_loop) and the caller's thread, whose position is pc.  The caller's *)
(* code is cut into one action per access to shared state (the queue, the  *)
(* serial port, the monotonic clock).                                      *)
(*                                                                         *)
(* The synchronous engine (src/elliptec/elliptec.py) has no reader thread: *)
(* the caller reads the serial port itself.  The variable engine says      *)
(* which of the two a session is; for the synchronous one rx_lines is the  *)
(* input buffer of the serial port.                                        *)
(*                                                                         *)
(* Time: the variable now is time.monotonic() in ticks.  The staleness     *)
(* tolerance 1e-3 s of _send_and_wait_one is one tick (Eps); the waits     *)
(* 0.05 s, 0.15 s and 0.6 s of _wait_until_done are kept in their order    *)
(* but shortened (PopTimeout < PollInterval < StatusTimeout).              *)
(*                                                                         *)
(* A reply line is the sequence of its characters, so that len(), s[0],    *)
(* s[1:3] and int(s[3:5], 16) are computed as the code computes them.      *)
(***************************************************************************)
EXTENDS Integers, Sequences, FiniteSets, TLC

(* ------------------------------ bounds --------------------------------- *)

\* the longest timeout_s a motion call is given, in ticks
MaxTimeout == 2
\* the longest time serial.write and serial.flush take, in ticks
MaxWriteTime == 2
\* 0.05 s of _pop_rx_line(timeout_s=0.05), in ticks (shortened)
PopTimeout == 1
\* poll_interval_s = 0.15, in ticks (shortened)
PollInterval == 2
\* get_status(timeout_s=0.6), in ticks (shortened)
StatusTimeout == 3
\* capacity of the receive queue, deque(maxlen=50_000), shortened
QueueCap == 3
\* elliptec.py: the read timeout of the serial port, timeout=float(0.5),
\* in ticks (shortened)
SerialTimeout == 1
\* elliptec.py: time.sleep(0.1) of _send_raw, in ticks (shortened)
SyncSettle == 1
\* elliptec.py: the longest timeout_s a motion call is given, in ticks: longer
\* than a read, a poll and its read (the default is 30 s against 0.5 s)
MaxSyncTimeout == 4

(* ---------------------------- constants -------------------------------- *)

\* 1e-3 s tolerance of the staleness filter, one tick
Eps == 1

Min(a, b) == IF a < b THEN a ELSE b
Max(a, b) == IF a > b THEN a ELSE b

NoStatus == -1
NoTime == -1

(* ------------------------------- enums --------------------------------- *)

\* class StatusCode(IntEnum)
OK == 0
MECHANICAL_TIMEOUT == 2
VALUE_OUT_OF_RANGE == 4
BUSY == 9
UNKNOWN == 255
StatusCodeValues == (0 .. 13) \cup {UNKNOWN}

\* ReplyCommand.STATUS.value, ReplyCommand.POSITION.value, ReplyCommand.VELOCITY.value
STATUS == <<"G", "S">>
POSITION == <<"P", "O">>
VELOCITY == <<"G", "V">>

\* HostCommand values
GET_STATUS == <<"g", "s">>
GET_VELOCITY == <<"g", "v">>
MOVE_RELATIVE == <<"m", "r">>
SET_VELOCITY == <<"s", "v">>
\* HostCommand.GET_POSITION.value, HostCommand.STOP.value (elliptec.py)
GET_POSITION == <<"g", "p">>
STOP == <<"s", "t">>

(* --------------------------- string helpers ---------------------------- *)

\* Python slice s[i:j] of a string (0-based, end exclusive, clipped)
Slice(s, i, j) == SubSeq(s, i + 1, Min(j, Len(s)))

HexDigitValue(c) ==
    CASE c = "0" -> 0 [] c = "1" -> 1 [] c = "2" -> 2 [] c = "3" -> 3
      [] c = "4" -> 4 [] c = "5" -> 5 [] c = "6" -> 6 [] c = "7" -> 7
      [] c = "8" -> 8 [] c = "9" -> 9 [] c = "A" -> 10 [] c = "B" -> 11
      [] c = "C" -> 12 [] c = "D" -> 13 [] c = "E" -> 14 [] c = "F" -> 15
      [] c = "a" -> 10 [] c = "b" -> 11 [] c = "c" -> 12 [] c = "d" -> 13
      [] c = "e" -> 14 [] c = "f" -> 15
      [] OTHER -> -1

\* int(code_hex, 16) on a two-character field: -1 stands for ValueError
IntHex2(h) ==
    IF Len(h) = 2 /\ HexDigitValue(h[1]) >= 0 /\ HexDigitValue(h[2]) >= 0
    THEN 16 * HexDigitValue(h[1]) + HexDigitValue(h[2])
    ELSE -1

\* parse_status_reply that raises on a code outside the enumeration
parse_status_reply_strict(reply, address) ==
    IF Len(reply) < 5 \/ reply[1] # address \/ Slice(reply, 1, 3) # STATUS
    THEN [ok |-> FALSE, code |-> NoStatus]
    ELSE LET code == IntHex2(Slice(reply, 3, 5)) IN
         IF code \in StatusCodeValues THEN [ok |-> TRUE, code |-> code]
         ELSE [ok |-> FALSE, code |-> NoStatus]

\* _parse_status_reply of elliptec_trace.py: [ok |-> FALSE] is ElliptecError
parse_status_reply(reply, address) ==
    IF Len(reply) < 5 \/ reply[1] # address \/ Slice(reply, 1, 3) # STATUS
    THEN [ok |-> FALSE, code |-> NoStatus]
    ELSE LET code == IntHex2(Slice(reply, 3, 5)) IN
         IF code < 0 THEN [ok |-> FALSE, code |-> NoStatus]
         ELSE IF code \in StatusCodeValues THEN [ok |-> TRUE, code |-> code]
         ELSE [ok |-> TRUE, code |-> UNKNOWN]

\* _parse_velocity_reply of elliptec_trace.py
parse_velocity_reply(reply, address) ==
    IF Len(reply) < 5 \/ reply[1] # address \/ Slice(reply, 1, 3) # VELOCITY
    THEN [ok |-> FALSE, code |-> NoStatus]
    ELSE LET v == IntHex2(Slice(reply, 3, 5)) IN
         IF v < 0 THEN [ok |-> FALSE, code |-> NoStatus] ELSE [ok |-> TRUE, code |-> v]

\* _parse_status_reply of elliptec.py: a code outside the enumeration is
\* COMMAND_ERROR_OR_NOT_SUPPORTED (9 is a member, so the BUSY branch is dead)
COMMAND_ERROR_OR_NOT_SUPPORTED == 3
SyncStatusCodeValues == 0 .. 13

parse_status_reply_sync(reply, address) ==
    IF Len(reply) < 5 \/ reply[1] # address \/ Slice(reply, 1, 3) # STATUS
    THEN [ok |-> FALSE, code |-> NoStatus]
    ELSE LET code == IntHex2(Slice(reply, 3, 5)) IN
         IF code < 0 THEN [ok |-> FALSE, code |-> NoStatus]
         ELSE IF code \in SyncStatusCodeValues THEN [ok |-> TRUE, code |-> code]
         ELSE [ok |-> TRUE, code |-> IF code = 9 THEN BUSY
                                     ELSE COMMAND_ERROR_OR_NOT_SUPPORTED]

(* ----------------------------- reply lines ----------------------------- *)

Line_GS09 == <<"0", "G", "S", "0", "9">>
Line_GS02 == <<"0", "G", "S", "0", "2">>
Line_GS00 == <<"0", "G", "S", "0", "0">>
Line_GS04 == <<"0", "G", "S", "0", "4">>
Line_PO == <<"0", "P", "O", "0", "0", "0", "0", "0", "0", "0", "0">>
Line_Other == <<"1", "G", "S", "0", "0">>
Line_Short == <<"0", "G", "S", "0">>
Line_Empty == <<>>

Line_GV32 == <<"0", "G", "V", "3", "2">>
Line_ShortPO == <<"0", "P", "O">>
Line_Tiny == <<"0", "G">>

\* the reply streams of the bus: the lines it delivers, in order, and whether
\* it repeats them for ever
Stream_BusyBusyPos == [lines |-> <<Line_GS09, Line_GS09, Line_PO>>, loop |-> FALSE]
Stream_MechMechOk == [lines |-> <<Line_GS02, Line_GS02, Line_GS00>>, loop |-> FALSE]
Stream_Fault == [lines |-> <<Line_GS04>>, loop |-> FALSE]
Stream_Ok == [lines |-> <<Line_GS00>>, loop |-> FALSE]
Stream_BusyFault == [lines |-> <<Line_GS09, Line_GS04>>, loop |-> FALSE]
Stream_Ignored == [lines |-> <<Line_Other, Line_Empty, Line_Tiny>>, loop |-> FALSE]
Stream_ShortStatus == [lines |-> <<Line_Other, Line_Short>>, loop |-> FALSE]
Stream_ShortPosition == [lines |-> <<Line_ShortPO>>, loop |-> FALSE]
Stream_Silent == [lines |-> <<>>, loop |-> FALSE]
Stream_Velocity == [lines |-> <<Line_GS00, Line_GV32, Line_GV32>>, loop |-> FALSE]
Stream_BusyForEver == [lines |-> <<Line_GS09>>, loop |-> TRUE]
Stream_OtherForEver == [lines |-> <<Line_Other, Line_GS09>>, loop |-> TRUE]

Streams == {Stream_BusyBusyPos, Stream_MechMechOk, Stream_Fault, Stream_Ok,
            Stream_BusyFault, Stream_Ignored, Stream_ShortStatus,
            Stream_ShortPosition, Stream_Silent, Stream_Velocity, Stream_BusyForEver,
            Stream_OtherForEver}


(* --------------------------- frame encoding ---------------------------- *)

HexChar(d) ==
    CASE d = 0 -> "0" [] d = 1 -> "1" [] d = 2 -> "2" [] d = 3 -> "3"
      [] d = 4 -> "4" [] d = 5 -> "5" [] d = 6 -> "6" [] d = 7 -> "7"
      [] d = 8 -> "8" [] d = 9 -> "9" [] d = 10 -> "A" [] d = 11 -> "B"
      [] d = 12 -> "C" [] d = 13 -> "D" [] d = 14 -> "E" [] OTHER -> "F"

\* the low 28 bits of a natural number as 7 uppercase hex digits
Hex7(u) ==
    << HexChar((u \div 16777216) % 16), HexChar((u \div 1048576) % 16),
       HexChar((u \div 65536) % 16), HexChar((u \div 4096) % 16),
       HexChar((u \div 256) % 16), HexChar((u \div 16) % 16), HexChar(u % 16) >>

\* _encode_long32: f"{(value & 0xFFFFFFFF):08X}" for a signed 32-bit value
\* (the top digit is computed apart: 2^32 is no number of the model checker)
encode_long32(value) ==
    IF value >= 0
    THEN <<HexChar(value \div 268435456)>> \o Hex7(value % 268435456)
    ELSE LET u == (value + 2147483647) + 1 IN
         <<HexChar(8 + (u \div 268435456))>> \o Hex7(u % 268435456)

(* ------------------------------- state --------------------------------- *)

VARIABLES
    now,          \* time.monotonic()
    rx_lines,     \* self._rx_lines: the receive queue of (ts, text)
    bus,          \* the reply stream of the bus
    nlines,       \* lines of the stream delivered so far
    rx_last,      \* the time the reader got its last line
    wire,         \* every frame written to the serial port, in order
    address,      \* self._address
    settle_s,     \* self._settle_s; elliptec.py: the sleep of _send_raw
    engine,       \* "threaded": elliptec_trace.py, "sync": elliptec.py
    arg,          \* the argument of the running call: percent of set_speed,
                  \* clear_serial_buffer of flush_rx
    scan,         \* the constructor and _find_addresses: range, found addresses
    pf,           \* a helper function applied to an input, and what it returned
    stop_evt,     \* self._stop_evt.is_set()
    is_open,      \* self._serial.is_open
    rx_pc,        \* position of the reader thread in _rx_loop
    rx_raw,       \* the bytes the running serial.readline() has read so far
    port,         \* the bytes in the input buffer of the serial port
    lock,         \* the thread that holds the lock of self._rx_cond
    woken,        \* the waiting caller has been notified by notify_all
    calls,        \* the number of public operations called so far
    rot,          \* Rotator: the tracked angle and the moves of the running rotate
    srv,          \* SpectrometerServer: configuration, events, both threads
    pc,           \* position of the caller's thread
    op,           \* the public operation the caller is in
    timeout_s,    \* timeout_s of the running motion call
    deadline,     \* _wait_until_done: deadline
    next_poll,    \* _wait_until_done: next_poll
    pop_deadline, \* _pop_rx_line: deadline
    w_time,       \* _send_raw: the time of serial.write
    sw,           \* _send_and_wait_one: timeout_s, tx_ts, deadline, returned item
    outcome,      \* how the operation ended: res, status of the ElliptecError
    ev,           \* observer: the line the caller's last step consumed
    obs           \* observer: what the running call has seen so far

vars == <<now, rx_lines, bus, nlines, rx_last, wire, address, settle_s, engine, rot, srv,
          stop_evt, is_open, rx_pc, rx_raw, port, lock, woken, calls,
          arg, scan, pf, pc, op, timeout_s,
          deadline, next_poll, pop_deadline, w_time, sw, outcome, ev, obs>>

NoItem == [ts |-> NoTime, txt |-> <<>>]
NoPred == [tag |-> <<>>, addr |-> ""]
NoSw == [timeout |-> 0, pred |-> NoPred, tx_ts |-> NoTime, deadline |-> NoTime,
         item |-> NoItem, popped |-> <<>>]
NoOutcome == [res |-> "none", kind |-> "none", status |-> NoStatus, value |-> NoStatus]
NoEv == [path |-> "none", txt |-> <<>>, stale |-> FALSE]
NoArg == -1000
NoScan == [st |-> "none"]
NoPf == [fn |-> "none"]
NoRot == [st |-> "none"]
NoSrv == [st |-> "none"]
NoObs == [pre |-> FALSE, po |-> FALSE, fault |-> NoStatus, faultwire |-> 0, nbusy |-> 0]

\* the timeouts a motion call is given
Timeouts == 1 .. MaxTimeout
SyncTimeouts == {1, MaxSyncTimeout}

(* --------------------------- line classes ------------------------------ *)

IsStatusFor(s, a) == parse_status_reply(s, a).ok
StatusOf(s, a) == parse_status_reply(s, a).code
IsBusyLine(s, a) == IsStatusFor(s, a) /\ StatusOf(s, a) = BUSY
IsFaultLine(s, a) ==
    IsStatusFor(s, a) /\ StatusOf(s, a) \notin {OK, BUSY, MECHANICAL_TIMEOUT}
IsPositionFor(s, a) == Len(s) >= 11 /\ s[1] = a /\ Slice(s, 1, 3) = POSITION
IsOtherAddress(s, a) == Len(s) > 0 /\ s[1] # a

(* ------------------------------ reader --------------------------------- *)

\* append on a full queue that refuses the new entry
DequeAppendDropNew(q, item) ==
    IF Len(q) >= QueueCap THEN q ELSE Append(q, item)

\* deque.append on a deque(maxlen=QueueCap): a full queue drops its head
DequeAppend(q, item) ==
    IF Len(q) >= QueueCap THEN Append(Tail(q), item) ELSE Append(q, item)

\* _rx_loop, one line: readline returns the next line of the bus, the reader
\* timestamps it and appends it under the condition's lock.  A line takes the
\* bus at least a tick.  (elliptec.py: the line reaches the input buffer of
\* the serial port)
RxLine ==
    /\ pc \notin {"done", "raised"}
    /\ nlines < Len(bus.lines)
    /\ rx_last < now
    /\ rx_last' = now
    /\ nlines' = IF bus.loop /\ nlines + 1 = Len(bus.lines) THEN 0 ELSE nlines + 1
    /\ rx_lines' = IF engine = "sync"
                   THEN Append(rx_lines, [ts |-> now, txt |-> bus.lines[nlines + 1]])
                   ELSE DequeAppend(rx_lines, [ts |-> now, txt |-> bus.lines[nlines + 1]])
    /\ obs' = [obs EXCEPT !.pre = @ \/ pc = "idle"]
    /\ UNCHANGED <<now, bus, wire, address, settle_s, engine, rot, srv,
                   stop_evt, is_open, rx_pc, rx_raw, port, lock, woken, calls, arg, scan, pf, pc, op, timeout_s, deadline,
                   next_poll, pop_deadline, w_time, sw, outcome, ev>>

\* the caller's thread is blocked: in Condition.wait of _pop_rx_line (in
\* serial.read_until of elliptec.py), or in serial.write / flush / the settle
\* sleep of _send_raw
Blocked ==
    \/ pc \in {"w_pop", "sw_pop", "y_read", "t_read"} /\ rx_lines = <<>> /\ now < pop_deadline
    \/ pc = "p_wait" /\ ~woken /\ now < pop_deadline
    \/ pc = "c_join" /\ rx_pc # "exited" /\ now < deadline
    \/ pc \in {"mv_settle", "sw_settle", "y_settle", "t_settle", "q_settle"}
          /\ now < w_time + settle_s + MaxWriteTime

\* the monotonic clock advances while the caller is blocked (the caller's own
\* statements take no time)
Tick ==
    /\ Blocked
    /\ now' = now + 1
    /\ UNCHANGED <<rx_lines, bus, nlines, rx_last, wire, address, settle_s, engine, rot, srv,
                   stop_evt, is_open, rx_pc, rx_raw, port, lock, woken, calls, arg, scan, pf, pc, op, timeout_s,
                   deadline, next_poll, pop_deadline, w_time, sw, outcome, ev, obs>>


(* ------------------------- the motion commands ------------------------- *)

HOME == <<"h", "o">>
MOVE_ABSOLUTE == <<"m", "a">>
MotionKinds == {HOME, MOVE_RELATIVE, MOVE_ABSOLUTE}

\* a motion frame addressed to the lowest address instead of the bound one
MotionFrameUnbound(kind, counts) ==
    IF kind = HOME THEN <<"0">> \o HOME \o <<"0">>
    ELSE <<"0">> \o kind \o encode_long32(counts)

\* the frame home / move_relative / move_absolute hand to _send_raw
\* (direction CW = 0; a move of counts encoder counts)
MotionFrame(kind, counts) ==
    IF kind = HOME THEN <<address>> \o HOME \o <<"0">>
    ELSE <<address>> \o kind \o encode_long32(counts)

\* home / move_relative / move_absolute up to serial.write in _send_raw
\* (elliptec.py: after self._serial.reset_input_buffer())
MotionSend(kind, counts, t) ==
    /\ pc = "idle"
    /\ wire' = Append(wire, MotionFrame(kind, counts))
    /\ w_time' = now
    /\ op' = "move"
    /\ timeout_s' = t
    /\ pc' = "mv_settle"
    /\ ev' = NoEv
    /\ rx_lines' = IF engine = "sync" THEN <<>> ELSE rx_lines
    /\ obs' = IF engine = "sync" THEN [obs EXCEPT !.pre = FALSE] ELSE obs
    /\ UNCHANGED <<now, bus, nlines, rx_last, address, settle_s, engine, rot, srv,
                   stop_evt, is_open, rx_pc, rx_raw, port, lock, woken, calls, arg, scan, pf, deadline, next_poll,
                   pop_deadline, sw, outcome>>

\* _send_raw returns after flush and the settle sleep; _wait_until_done starts:
\* deadline = time.monotonic() + timeout_s; next_poll = time.monotonic()
MotionStart ==
    /\ pc = "mv_settle"
    /\ now >= w_time + settle_s
    /\ deadline' = now + timeout_s
    /\ next_poll' = now
    /\ pc' = "w_loop"
    /\ UNCHANGED <<now, rx_lines, bus, nlines, rx_last, wire, address, settle_s, engine, rot, srv,
                   stop_evt, is_open, rx_pc, rx_raw, port, lock, woken, calls, arg, scan, pf, op, timeout_s,
                   pop_deadline, w_time, sw, outcome, ev, obs>>

\* _pop_rx_line with an empty queue: remaining = deadline - time.monotonic();
\* if remaining <= 0: return None
PopNeverTimesOut(t, dl) == FALSE

PopTimedOut(t, dl) == dl - t <= 0

\* while time.monotonic() < deadline: ... _pop_rx_line(timeout_s=0.05) entered
\* (elliptec.py: self._readline(), which waits for the port's read timeout);
\* after the loop: raise ElliptecError("Timeout waiting for motion to complete")
WLoopTest(t, dl) == t < dl

WaitLoop ==
    /\ pc = "w_loop"
    /\ IF WLoopTest(now, deadline)
       THEN /\ pop_deadline' = now + (IF engine = "sync" THEN SerialTimeout
                                        ELSE PopTimeout)
            /\ pc' = "w_pop"
            /\ outcome' = outcome
       ELSE /\ pc' = "raised"
            /\ outcome' = [NoOutcome EXCEPT !.res = "error", !.kind = "timeout"]
            /\ pop_deadline' = pop_deadline
    /\ ev' = NoEv
    /\ UNCHANGED <<now, rx_lines, bus, nlines, rx_last, wire, address, settle_s, engine, rot, srv,
                   stop_evt, is_open, rx_pc, rx_raw, port, lock, woken, calls, arg, scan, pf, op, timeout_s,
                   deadline, next_poll, w_time, sw, obs>>

\* wait_async with MECHANICAL_TIMEOUT handled like BUSY
wait_async_soft(line, a) ==
    IF Len(line) = 0 \/ line[1] # a \/ Len(line) < 3
    THEN [next |-> "w_loop", kind |-> "none", status |-> NoStatus]
    ELSE IF Slice(line, 1, 3) = STATUS
    THEN LET st == parse_status_reply(line, a) IN
         IF ~st.ok THEN [next |-> "raised", kind |-> "protocol", status |-> NoStatus]
         ELSE IF st.code \in {BUSY, MECHANICAL_TIMEOUT}
         THEN [next |-> "w_loop", kind |-> "none", status |-> NoStatus]
         ELSE IF st.code # OK THEN [next |-> "raised", kind |-> "device", status |-> st.code]
         ELSE [next |-> "done", kind |-> "none", status |-> NoStatus]
    ELSE IF Slice(line, 1, 3) = POSITION
    THEN [next |-> "done", kind |-> "none", status |-> NoStatus]
    ELSE [next |-> "w_poll", kind |-> "none", status |-> NoStatus]

\* _wait_until_done under a position-required policy: an OK status keeps the
\* loop waiting for the Position line
wait_async_strict(line, a) ==
    IF Len(line) = 0 \/ line[1] # a \/ Len(line) < 3
    THEN [next |-> "w_loop", kind |-> "none", status |-> NoStatus]
    ELSE IF Slice(line, 1, 3) = STATUS
    THEN LET st == parse_status_reply(line, a) IN
         IF ~st.ok THEN [next |-> "raised", kind |-> "protocol", status |-> NoStatus]
         ELSE IF st.code = BUSY THEN [next |-> "w_loop", kind |-> "none", status |-> NoStatus]
         ELSE IF st.code # OK THEN [next |-> "raised", kind |-> "device", status |-> st.code]
         ELSE [next |-> "w_loop", kind |-> "none", status |-> NoStatus]
    ELSE IF Slice(line, 1, 3) = POSITION
    THEN [next |-> "done", kind |-> "none", status |-> NoStatus]
    ELSE [next |-> "w_poll", kind |-> "none", status |-> NoStatus]

\* the body of _wait_until_done for one popped line (lines 581-602):
\* what the loop does next and the error it raises
wait_async(line, a) ==
    IF Len(line) = 0 \/ line[1] # a \/ Len(line) < 3
    THEN [next |-> "w_loop", kind |-> "none", status |-> NoStatus]
    ELSE IF Slice(line, 1, 3) = STATUS
    THEN LET st == parse_status_reply(line, a) IN
         IF ~st.ok THEN [next |-> "raised", kind |-> "protocol", status |-> NoStatus]
         ELSE IF st.code = BUSY THEN [next |-> "w_loop", kind |-> "none", status |-> NoStatus]
         ELSE IF st.code # OK THEN [next |-> "raised", kind |-> "device", status |-> st.code]
         ELSE [next |-> "done", kind |-> "none", status |-> NoStatus]
    ELSE IF Slice(line, 1, 3) = POSITION
    THEN [next |-> "done", kind |-> "none", status |-> NoStatus]
    ELSE [next |-> "w_poll", kind |-> "none", status |-> NoStatus]

\* elliptec.py, the body of _wait_until_done for one line read (lines
\* 368-386): a line that is no reply of the call goes back to the loop's test
wait_sync(line, a) ==
    IF Len(line) = 0 \/ line[1] # a \/ Len(line) < 3
    THEN [next |-> "w_loop", kind |-> "none", status |-> NoStatus]
    ELSE IF Slice(line, 1, 3) = STATUS
    THEN LET st == parse_status_reply_sync(line, a) IN
         IF ~st.ok THEN [next |-> "raised", kind |-> "protocol", status |-> NoStatus]
         ELSE IF st.code = BUSY THEN [next |-> "w_loop", kind |-> "none", status |-> NoStatus]
         ELSE IF st.code # OK THEN [next |-> "raised", kind |-> "device", status |-> st.code]
         ELSE [next |-> "done", kind |-> "none", status |-> NoStatus]
    ELSE IF Slice(line, 1, 3) = POSITION
    THEN [next |-> "done", kind |-> "none", status |-> NoStatus]
    ELSE [next |-> "w_loop", kind |-> "none", status |-> NoStatus]

\* what a popped line adds to the observer's record of the call
Observe(line, stale) ==
    [obs EXCEPT
       !.po = @ \/ (IsPositionFor(line, address) /\ obs.fault = NoStatus /\ now < deadline),
       !.fault = IF @ = NoStatus /\ IsFaultLine(line, address)
                 THEN StatusOf(line, address) ELSE @,
       !.faultwire = IF obs.fault = NoStatus /\ IsFaultLine(line, address)
                     THEN Len(wire) ELSE @,
       !.nbusy = IF IsBusyLine(line, address) /\ ~stale THEN Min(@ + 1, 2) ELSE @]

EndOutcome(next, kind, status) ==
    IF next = "raised"
    THEN [NoOutcome EXCEPT !.res = "error", !.kind = kind, !.status = status]
    ELSE IF next = "done" THEN [NoOutcome EXCEPT !.res = "done"]
    ELSE outcome

\* _pop_rx_line returns the head of the queue (elliptec.py: _readline returns
\* the next line of the port); the loop body handles it
WaitPopLine ==
    /\ pc = "w_pop"
    /\ rx_lines # <<>>
    /\ LET line == Head(rx_lines).txt
           r == IF engine = "sync" THEN wait_sync(line, address)
                ELSE wait_async(line, address) IN
       /\ rx_lines' = Tail(rx_lines)
       /\ pc' = r.next
       /\ outcome' = EndOutcome(r.next, r.kind, r.status)
       /\ ev' = [path |-> "async", txt |-> line, stale |-> FALSE]
       /\ obs' = Observe(line, FALSE)
    /\ UNCHANGED <<now, bus, nlines, rx_last, wire, address, settle_s, engine, rot, srv,
                   stop_evt, is_open, rx_pc, rx_raw, port, lock, woken, calls, arg, scan, pf, op, timeout_s, deadline,
                   next_poll, pop_deadline, w_time, sw>>

\* _pop_rx_line returns None: the queue stayed empty until its deadline
\* (elliptec.py: _readline returns None after the port's read timeout)
WaitPopTimeout ==
    /\ pc = "w_pop"
    /\ rx_lines = <<>>
    /\ PopTimedOut(now, pop_deadline)
    /\ pc' = "w_poll"
    /\ ev' = NoEv
    /\ UNCHANGED <<now, rx_lines, bus, nlines, rx_last, wire, address, settle_s, engine, rot, srv,
                   stop_evt, is_open, rx_pc, rx_raw, port, lock, woken, calls, arg, scan, pf, op, timeout_s,
                   deadline, next_poll, pop_deadline, w_time, sw, outcome, obs>>

\* 2) poll status occasionally: now >= next_poll, then get_status(timeout_s=0.6)
\* up to serial.write in _send_raw
WaitPoll ==
    /\ pc = "w_poll"
    /\ engine = "threaded"
    /\ IF now >= next_poll
       THEN /\ next_poll' = now + PollInterval
            /\ wire' = Append(wire, <<address>> \o GET_STATUS)
            /\ w_time' = now
            /\ sw' = [NoSw EXCEPT !.timeout = StatusTimeout,
                                   !.pred = [tag |-> STATUS, addr |-> address]]
            /\ pc' = "sw_settle"
       ELSE /\ pc' = "w_loop"
            /\ UNCHANGED <<next_poll, wire, w_time, sw>>
    /\ ev' = NoEv
    /\ UNCHANGED <<now, rx_lines, bus, nlines, rx_last, address, settle_s, engine, rot, srv,
                   stop_evt, is_open, rx_pc, rx_raw, port, lock, woken, calls, arg, scan, pf, op, timeout_s, deadline,
                   pop_deadline, outcome, obs>>


(* ------------------------- _send_and_wait_one -------------------------- *)

\* predicate(txt): None accepts every line; the lambdas of get_status,
\* get_speed, set_speed and _find_addresses test length, address and tag
Predicate(pred, s) ==
    \/ pred = NoPred
    \/ (Len(s) >= 5 /\ s[1] = pred.addr /\ Slice(s, 1, 3) = pred.tag)

\* no staleness filter
IsStaleNever(ts, tx_ts) == FALSE

\* the staleness filter: if ts + 1e-3 < tx_ts: continue
IsStale(ts, tx_ts) == ts + Eps < tx_ts

\* tx_ts = self._send_raw(cmd) returns time.monotonic() after flush and the
\* settle sleep; deadline = time.monotonic() + timeout_s
SendStamp ==
    /\ pc = "sw_settle"
    /\ now >= w_time + settle_s
    /\ sw' = [sw EXCEPT !.tx_ts = now, !.deadline = now + sw.timeout]
    /\ pc' = "sw_loop"
    /\ UNCHANGED <<now, rx_lines, bus, nlines, rx_last, wire, address, settle_s, engine, rot, srv,
                   stop_evt, is_open, rx_pc, rx_raw, port, lock, woken, calls, arg, scan, pf, op, timeout_s,
                   deadline, next_poll, pop_deadline, w_time, outcome, ev, obs>>

\* while time.monotonic() < deadline:
\*     item = self._pop_rx_line(timeout_s=max(0.0, deadline - time.monotonic()))
\* and "return None" after the loop
SendLoop ==
    /\ pc = "sw_loop"
    /\ IF now < sw.deadline
       THEN /\ pop_deadline' = now + Max(0, sw.deadline - now)
            /\ pc' = "sw_pop"
            /\ sw' = sw
       ELSE /\ sw' = [sw EXCEPT !.item = NoItem]
            /\ pc' = "sw_ret"
            /\ pop_deadline' = pop_deadline
    /\ UNCHANGED <<now, rx_lines, bus, nlines, rx_last, wire, address, settle_s, engine, rot, srv,
                   stop_evt, is_open, rx_pc, rx_raw, port, lock, woken, calls, arg, scan, pf, op, timeout_s,
                   deadline, next_poll, w_time, outcome, ev, obs>>

\* send_and_wait_step that returns the first fresh line, whatever the predicate
send_and_wait_nopred(item, tx_ts, pred) ==
    IF IsStale(item.ts, tx_ts) THEN "stale" ELSE "return"

\* what _send_and_wait_one does with a popped item: drop it as stale, return
\* it, or keep consuming
send_and_wait_step(item, tx_ts, pred) ==
    IF IsStale(item.ts, tx_ts) THEN "stale"
    ELSE IF Predicate(pred, item.txt) THEN "return"
    ELSE "consume"

SendPopLine ==
    /\ pc = "sw_pop"
    /\ rx_lines # <<>>
    /\ LET item == Head(rx_lines)
           r == send_and_wait_step(item, sw.tx_ts, sw.pred) IN
       /\ rx_lines' = Tail(rx_lines)
       /\ IF r = "return"
          THEN /\ sw' = [sw EXCEPT !.item = item, !.popped = Append(@, item)]
               /\ pc' = "sw_ret"
          ELSE /\ sw' = [sw EXCEPT !.popped = Append(@, item)]
               /\ pc' = "sw_loop"
       /\ ev' = [path |-> "poll", txt |-> item.txt, stale |-> (r = "stale")]
       /\ obs' = Observe(item.txt, r = "stale")
    /\ UNCHANGED <<now, bus, nlines, rx_last, wire, address, settle_s, engine, rot, srv,
                   stop_evt, is_open, rx_pc, rx_raw, port, lock, woken, calls, arg, scan, pf, op, timeout_s, deadline,
                   next_poll, pop_deadline, w_time, outcome>>

\* _pop_rx_line returned None: _send_and_wait_one returns None
SendPopTimeout ==
    /\ pc = "sw_pop"
    /\ rx_lines = <<>>
    /\ PopTimedOut(now, pop_deadline)
    /\ sw' = [sw EXCEPT !.item = NoItem]
    /\ pc' = "sw_ret"
    /\ UNCHANGED <<now, rx_lines, bus, nlines, rx_last, wire, address, settle_s, engine, rot, srv,
                   stop_evt, is_open, rx_pc, rx_raw, port, lock, woken, calls, arg, scan, pf, op, timeout_s,
                   deadline, next_poll, pop_deadline, w_time, outcome, ev, obs>>

(* ------------------------ get_status in the wait ----------------------- *)

\* get_status: "Timeout waiting for status reply" on None, else
\* _parse_status_reply(reply, self._address)
get_status_result(item, a) ==
    IF item = NoItem THEN [ok |-> FALSE, code |-> NoStatus]
    ELSE parse_status_reply(item.txt, a)

\* wait_poll without the test for BUSY
wait_poll_nobusy(st) ==
    IF ~st.ok THEN [next |-> "w_loop", kind |-> "none", status |-> NoStatus]
    ELSE IF st.code # OK THEN [next |-> "raised", kind |-> "device", status |-> st.code]
    ELSE [next |-> "done", kind |-> "none", status |-> NoStatus]

\* wait_poll that returns on every answered poll
wait_poll_anyok(st) ==
    IF ~st.ok THEN [next |-> "w_loop", kind |-> "none", status |-> NoStatus]
    ELSE IF st.code = BUSY THEN [next |-> "w_loop", kind |-> "none", status |-> NoStatus]
    ELSE [next |-> "done", kind |-> "none", status |-> NoStatus]

\* lines 608-618 of _wait_until_done: the poll's answer
wait_poll(st) ==
    IF ~st.ok THEN [next |-> "w_loop", kind |-> "none", status |-> NoStatus]
    ELSE IF st.code = BUSY THEN [next |-> "w_loop", kind |-> "none", status |-> NoStatus]
    ELSE IF st.code # OK THEN [next |-> "raised", kind |-> "device", status |-> st.code]
    ELSE [next |-> "done", kind |-> "none", status |-> NoStatus]

WaitPollReturn ==
    /\ pc = "sw_ret"
    /\ op = "move"
    /\ LET r == wait_poll(get_status_result(sw.item, address)) IN
       /\ pc' = r.next
       /\ outcome' = EndOutcome(r.next, r.kind, r.status)
    /\ UNCHANGED <<now, rx_lines, bus, nlines, rx_last, wire, address, settle_s, engine, rot, srv,
                   stop_evt, is_open, rx_pc, rx_raw, port, lock, woken, calls, arg, scan, pf, op, timeout_s,
                   deadline, next_poll, pop_deadline, w_time, sw, ev, obs>>

(* ------------------- elliptec.py: the poll of the wait ------------------ *)

\* line is None: st = self.get_status(), up to serial.write in _send_raw
SyncPoll ==
    /\ pc = "w_poll"
    /\ engine = "sync"
    /\ wire' = Append(wire, <<address>> \o GET_STATUS)
    /\ w_time' = now
    /\ pc' = "y_settle"
    /\ ev' = NoEv
    /\ UNCHANGED <<now, rx_lines, bus, nlines, rx_last, address, settle_s, engine, rot, srv,
                   stop_evt, is_open, rx_pc, rx_raw, port, lock, woken, calls, arg, scan, pf, op, timeout_s,
                   deadline, next_poll, pop_deadline, sw, outcome, obs>>

\* _send_raw returns after flush and time.sleep(0.1); _send_and_read_one
\* calls self._readline()
SyncPollSent ==
    /\ pc = "y_settle"
    /\ now >= w_time + settle_s
    /\ pop_deadline' = now + SerialTimeout
    /\ pc' = "y_read"
    /\ UNCHANGED <<now, rx_lines, bus, nlines, rx_last, wire, address, settle_s, engine, rot, srv,
                   stop_evt, is_open, rx_pc, rx_raw, port, lock, woken, calls, arg, scan, pf, op,
                   timeout_s, deadline, next_poll, w_time, sw, outcome, ev, obs>>

\* what _wait_until_done of elliptec.py makes of the poll's answer: the
\* errors of get_status are not caught
sync_poll(st) ==
    IF ~st.ok THEN [next |-> "raised", kind |-> "protocol", status |-> NoStatus]
    ELSE IF st.code = BUSY THEN [next |-> "w_loop", kind |-> "none", status |-> NoStatus]
    ELSE IF st.code # OK THEN [next |-> "raised", kind |-> "device", status |-> st.code]
    ELSE [next |-> "done", kind |-> "none", status |-> NoStatus]

\* _readline returns the next line of the port: get_status parses it
SyncPollLine ==
    /\ pc = "y_read"
    /\ rx_lines # <<>>
    /\ LET line == Head(rx_lines).txt
           r == sync_poll(parse_status_reply_sync(line, address)) IN
       /\ rx_lines' = Tail(rx_lines)
       /\ pc' = r.next
       /\ outcome' = EndOutcome(r.next, r.kind, r.status)
       /\ ev' = [path |-> "poll", txt |-> line, stale |-> FALSE]
       /\ obs' = Observe(line, FALSE)
    /\ UNCHANGED <<now, bus, nlines, rx_last, wire, address, settle_s, engine, rot, srv,
                   stop_evt, is_open, rx_pc, rx_raw, port, lock, woken, calls, arg, scan, pf, op, timeout_s,
                   deadline, next_poll, pop_deadline, w_time, sw>>

\* the read timeout of the port has passed
ReadTimedOut(t, dl) == t >= dl

\* _readline returns None: get_status raises "Timeout waiting for status
\* reply", which _wait_until_done does not catch
SyncPollTimeout ==
    /\ pc = "y_read"
    /\ rx_lines = <<>>
    /\ ReadTimedOut(now, pop_deadline)
    /\ pc' = "raised"
    /\ outcome' = [NoOutcome EXCEPT !.res = "error", !.kind = "timeout"]
    /\ UNCHANGED <<now, rx_lines, bus, nlines, rx_last, wire, address, settle_s, engine, rot, srv,
                   stop_evt, is_open, rx_pc, rx_raw, port, lock, woken, calls, arg, scan, pf, op,
                   timeout_s, deadline, next_poll, pop_deadline, w_time, sw, ev, obs>>

(* ------------------ get_status, get_speed, set_speed ------------------- *)

\* the timeouts a query is given
QueryTimeouts == 1 .. MaxTimeout

\* get_status / get_speed up to serial.write in _send_raw: the frame is the
\* address and "gs" / "gv", the predicate wants the reply tag "GS" / "GV"
QuerySend(name, cmd, tag, t) ==
    /\ pc = "idle"
    /\ engine = "threaded"
    /\ wire' = Append(wire, <<address>> \o cmd)
    /\ w_time' = now
    /\ op' = name
    /\ sw' = [NoSw EXCEPT !.timeout = t, !.pred = [tag |-> tag, addr |-> address]]
    /\ pc' = "sw_settle"
    /\ ev' = NoEv
    /\ UNCHANGED <<now, rx_lines, bus, nlines, rx_last, address, settle_s, engine, rot, srv,
                   stop_evt, is_open, rx_pc, rx_raw, port, lock, woken, calls, arg, scan, pf, timeout_s,
                   deadline, next_poll, pop_deadline, outcome, obs>>

\* the percentages set_speed is called with: both ends of [0, 100], one
\* below, one above, and one whose hex digits are a letter
Percents == {-1, 0, 10, 100, 101}

\* percent_to_hex_byte without the range check
percent_to_hex_byte_unchecked(percent) ==
    [ok |-> TRUE, hex |-> <<HexChar((percent \div 16) % 16), HexChar(percent % 16)>>]

\* _percent_to_hex_byte: ValueError outside [0, 100], else f"{percent:02X}"
percent_to_hex_byte(percent) ==
    IF percent < 0 \/ percent > 100 THEN [ok |-> FALSE, hex |-> <<>>]
    ELSE [ok |-> TRUE, hex |-> <<HexChar(percent \div 16), HexChar(percent % 16)>>]

\* set_speed up to serial.write in _send_raw: vv = _percent_to_hex_byte(percent)
\* raises before anything is sent; the frame is the address, "sv" and vv, the
\* predicate wants the reply tag "GS"
SetSpeedSend(percent, t) ==
    /\ pc = "idle"
    /\ engine = "threaded"
    /\ op' = "set_speed"
    /\ arg' = percent
    /\ ev' = NoEv
    /\ LET vv == percent_to_hex_byte(percent) IN
       IF vv.ok
       THEN /\ wire' = Append(wire, <<address>> \o SET_VELOCITY \o vv.hex)
            /\ w_time' = now
            /\ sw' = [NoSw EXCEPT !.timeout = t,
                                   !.pred = [tag |-> STATUS, addr |-> address]]
            /\ pc' = "sw_settle"
            /\ outcome' = outcome
       ELSE /\ pc' = "raised"
            /\ outcome' = [NoOutcome EXCEPT !.res = "error", !.kind = "validation"]
            /\ UNCHANGED <<wire, w_time, sw>>
    /\ UNCHANGED <<now, rx_lines, bus, nlines, rx_last, address, settle_s, engine, rot, srv,
                   stop_evt, is_open, rx_pc, rx_raw, port, lock, woken, calls, scan, pf,
                   timeout_s, deadline, next_poll, pop_deadline, obs>>

\* the public operations that are one correlated wait
QueryOps == {"get_status", "get_speed", "set_speed"}

\* query_result that takes no reply for a reply
query_result_unchecked(name, item, a) ==
    LET r == IF name = "get_speed" THEN parse_velocity_reply(item.txt, a)
             ELSE parse_status_reply(item.txt, a) IN
    IF r.ok THEN [NoOutcome EXCEPT !.res = "done", !.value = r.code]
    ELSE [NoOutcome EXCEPT !.res = "done", !.value = OK]

\* query_result that, given no reply, answers with the status of the last line
\* the wait took off the queue
query_result_stale(name, item, a) ==
    IF item = NoItem /\ sw.popped # <<>>
          /\ parse_status_reply(sw.popped[Len(sw.popped)].txt, a).ok
    THEN [NoOutcome EXCEPT !.res = "done",
            !.value = parse_status_reply(sw.popped[Len(sw.popped)].txt, a).code]
    ELSE IF item = NoItem THEN [NoOutcome EXCEPT !.res = "error", !.kind = "timeout"]
    ELSE LET r == IF name = "get_speed" THEN parse_velocity_reply(item.txt, a)
                  ELSE parse_status_reply(item.txt, a) IN
         IF ~r.ok THEN [NoOutcome EXCEPT !.res = "error", !.kind = "protocol"]
         ELSE IF name # "set_speed" THEN [NoOutcome EXCEPT !.res = "done", !.value = r.code]
         ELSE IF r.code # OK
         THEN [NoOutcome EXCEPT !.res = "error", !.kind = "device", !.status = r.code]
         ELSE [NoOutcome EXCEPT !.res = "done"]

\* what get_status / get_speed / set_speed make of the reply: a timeout error
\* on None, else the parser's error or the parsed value; set_speed returns
\* nothing and raises the device's error on a status other than OK
query_result(name, item, a) ==
    IF item = NoItem THEN [NoOutcome EXCEPT !.res = "error", !.kind = "timeout"]
    ELSE LET r == IF name = "get_speed" THEN parse_velocity_reply(item.txt, a)
                  ELSE parse_status_reply(item.txt, a) IN
         IF ~r.ok THEN [NoOutcome EXCEPT !.res = "error", !.kind = "protocol"]
         ELSE IF name # "set_speed" THEN [NoOutcome EXCEPT !.res = "done", !.value = r.code]
         ELSE IF r.code # OK
         THEN [NoOutcome EXCEPT !.res = "error", !.kind = "device", !.status = r.code]
         ELSE [NoOutcome EXCEPT !.res = "done"]

QueryReturn ==
    /\ pc = "sw_ret"
    /\ op \in QueryOps
    /\ outcome' = query_result(op, sw.item, address)
    /\ pc' = IF outcome'.res = "done" THEN "done" ELSE "raised"
    /\ UNCHANGED <<now, rx_lines, bus, nlines, rx_last, wire, address, settle_s, engine, rot, srv,
                   stop_evt, is_open, rx_pc, rx_raw, port, lock, woken, calls, arg, scan, pf, op,
                   timeout_s, deadline, next_poll, pop_deadline, w_time, sw, ev, obs>>

(* --------------------------- specification ----------------------------- *)

\* the session after construction with address="0" and the default settle_s
\* (elliptec.py: the fixed sleep of _send_raw)
Init ==
    /\ now = 0
    /\ rx_lines = <<>>
    /\ bus \in Streams
    /\ nlines = 0
    /\ rx_last = NoTime
    /\ wire = <<>>
    /\ address = "0"
    /\ engine \in {"threaded", "sync"}
    /\ stop_evt = FALSE
    /\ rot = NoRot
    /\ srv = NoSrv
    /\ is_open = TRUE
    /\ rx_pc = "none"
    /\ rx_raw = <<>>
    /\ port = <<>>
    /\ lock = "free"
    /\ woken = FALSE
    /\ calls = 0
    /\ settle_s = IF engine = "sync" THEN SyncSettle ELSE 0
    /\ arg = NoArg
    /\ scan = NoScan
    /\ pf = NoPf
    /\ pc = "idle"
    /\ op = "none"
    /\ timeout_s = 0
    /\ deadline = NoTime
    /\ next_poll = NoTime
    /\ pop_deadline = NoTime
    /\ w_time = NoTime
    /\ sw = NoSw
    /\ outcome = NoOutcome
    /\ ev = NoEv
    /\ obs = NoObs

Motion ==
    \/ \E kind \in MotionKinds :
          \E t \in (IF engine = "sync" THEN SyncTimeouts ELSE Timeouts) :
              MotionSend(kind, 0, t)
    \/ MotionStart
    \/ WaitLoop
    \/ WaitPopLine
    \/ WaitPopTimeout
    \/ WaitPoll
    \/ WaitPollReturn
    \/ SyncPoll
    \/ SyncPollSent
    \/ SyncPollLine
    \/ SyncPollTimeout

Query ==
    \/ \E t \in QueryTimeouts : QuerySend("get_status", GET_STATUS, STATUS, t)
    \/ \E t \in QueryTimeouts : QuerySend("get_speed", GET_VELOCITY, VELOCITY, t)
    \/ \E percent \in Percents : \E t \in QueryTimeouts : SetSpeedSend(percent, t)
    \/ QueryReturn

Correlator ==
    \/ SendStamp
    \/ SendLoop
    \/ SendPopLine
    \/ SendPopTimeout

Next ==
    \/ RxLine
    \/ Tick
    \/ Motion
    \/ Query
    \/ Correlator

Spec == Init /\ [][Next]_vars


\* the caller's thread: the public operations and what they call
Caller == Motion \/ Query \/ Correlator

\* the threads are scheduled and the monotonic clock advances
SpecLive == Spec /\ WF_vars(Caller) /\ WF_vars(Tick)

(* ----------------- the constructor and _find_addresses ------------------ *)

\* the highest address (as a number) a scan is asked to probe (0xF in the
\* default range "0".."F")
MaxAddress == 2

\* str.upper() on one character
Upper(c) ==
    CASE c = "a" -> "A" [] c = "b" -> "B" [] c = "c" -> "C" [] c = "d" -> "D"
      [] c = "e" -> "E" [] c = "f" -> "F" [] c = "g" -> "G" [] OTHER -> c

\* str.upper() on a string
UpperSeq(s) == [i \in 1 .. Len(s) |-> Upper(s[i])]

\* _HEX_DIGITS = "0123456789ABCDEF"
HEX_DIGITS == {"0", "1", "2", "3", "4", "5", "6", "7", "8", "9",
               "A", "B", "C", "D", "E", "F"}

\* _normalize_address: ValueError ([ok |-> FALSE]) unless the string has one
\* character whose upper case is a hex digit; returns that upper case
normalize_address(addr) ==
    IF Len(addr) # 1 THEN [ok |-> FALSE, a |-> ""]
    ELSE IF Upper(addr[1]) \notin HEX_DIGITS THEN [ok |-> FALSE, a |-> ""]
    ELSE [ok |-> TRUE, a |-> Upper(addr[1])]

\* _address_range / _iter_addresses for normalized bounds with mn <= mx:
\* [format(i, "X") for i in range(mn, mx + 1)]
address_range(mn, mx) ==
    [i \in 1 .. (HexDigitValue(mx) - HexDigitValue(mn) + 1) |->
        HexChar(HexDigitValue(mn) + i - 1)]

\* the single byte elliptec.py writes before the probes: b"\r"
CR == <<"\r">>

\* the strings a constructor is given as address: hex digits in either case,
\* a letter that is no hex digit, the empty string, two characters
AddressInputs ==
    {<<HexChar(i)>> : i \in 0 .. MaxAddress} \cup {<<"a">>, <<"g">>, <<>>, <<"1", "0">>}

\* the strings a constructor is given as min_address and max_address
BoundInputs ==
    {<<HexChar(i)>> : i \in 0 .. MaxAddress} \cup {<<"g">>, <<"1", "0">>}

\* the addresses of the devices on the bus
BusAddresses == {HexChar(i) : i \in 0 .. MaxAddress}

\* the reply of a device to the status query of its address
StatusReplyOf(a) == <<a, "G", "S", "0", "0">>

\* the constructor raises: ValueError of _normalize_address / _address_range
\* ("validation"), or ElliptecError of the binding policy
OpenRaise(kind) ==
    /\ pc' = "raised"
    /\ outcome' = [NoOutcome EXCEPT !.res = "error", !.kind = kind]

\* __init__ after the port is open (elliptec_trace.py: and the reader
\* started): elliptec_trace.py normalizes min_address and max_address first;
\* with an address it is normalized and bound; without, _find_addresses
\* starts.  elliptec.py normalizes the bounds only for a scan, and its
\* _find_addresses writes CR before _iter_addresses checks mn <= mx
Open ==
    /\ pc = "new"
    /\ engine \in {"threaded", "sync"}
    /\ LET mn == normalize_address(scan.min_address)
           mx == normalize_address(scan.max_address)
           ad == normalize_address(scan.address) IN
       IF (engine = "threaded" \/ ~scan.has_address) /\ (~mn.ok \/ ~mx.ok)
       THEN OpenRaise("validation") /\ UNCHANGED <<address, wire, scan, op>>
       ELSE IF scan.has_address
       THEN IF ad.ok
            THEN /\ address' = ad.a
                 /\ pc' = "idle"
                 /\ UNCHANGED <<outcome, wire, scan, op>>
            ELSE OpenRaise("validation") /\ UNCHANGED <<address, wire, scan, op>>
       ELSE /\ op' = "scan"
            /\ wire' = IF engine = "sync" THEN Append(wire, CR) ELSE wire
            /\ address' = address
            /\ IF HexDigitValue(mn.a) > HexDigitValue(mx.a)
               THEN OpenRaise("validation") /\ scan' = scan
               ELSE /\ scan' = [scan EXCEPT !.todo = address_range(mn.a, mx.a),
                                             !.st = "scanning"]
                    /\ pc' = "sc_next"
                    /\ outcome' = outcome
    /\ UNCHANGED <<now, rx_lines, bus, nlines, rx_last, settle_s, engine, rot, srv,
                   stop_evt, is_open, rx_pc, rx_raw, port, lock, woken, calls, arg, pf, timeout_s,
                   deadline, next_poll, pop_deadline, w_time, sw, ev, obs>>

\* elliptec_speed_serial.py, set_speed: cmd = f"{address}sv{p:02X}" after
\* address = address.upper()
standalone_frame(addr, p) ==
    UpperSeq(addr) \o SET_VELOCITY \o percent_to_hex_byte(p).hex

\* elliptec_speed_serial.py, set_speed(port, percent, address) up to the
\* address it will use: p = int(round(percent)) is checked first; without an
\* address find_addresses opens the port, writes CR and probes the addresses
\* "0123456789ABCDEF" (here: up to MaxAddress); the address given is taken as
\* it is
StandaloneOpen ==
    /\ pc = "new"
    /\ engine = "standalone"
    /\ IF ~(0 <= arg /\ arg <= 100)
       THEN OpenRaise("validation") /\ UNCHANGED <<address, wire, scan, op>>
       ELSE IF scan.has_address
       THEN /\ address' = scan.address
            /\ pc' = "st_bound"
            /\ UNCHANGED <<outcome, wire, scan, op>>
       ELSE /\ op' = "scan"
            /\ wire' = Append(wire, CR)
            /\ address' = address
            /\ scan' = [scan EXCEPT !.todo = address_range("0", HexChar(MaxAddress)),
                                    !.st = "scanning"]
            /\ pc' = "sc_next"
            /\ outcome' = outcome
    /\ UNCHANGED <<now, rx_lines, bus, nlines, rx_last, settle_s, engine, rot, srv,
                   stop_evt, is_open, rx_pc, rx_raw, port, lock, woken, calls, arg, pf, timeout_s,
                   deadline, next_poll, pop_deadline, w_time, sw, ev, obs>>

\* elliptec_speed_serial.py, set_speed from "address = address.upper()" to the
\* write of the frame: CR, then the address, "sv" and f"{p:02X}"
StandaloneSend ==
    /\ pc = "st_bound"
    /\ address' = UpperSeq(address)
    /\ wire' = wire \o <<CR, standalone_frame(address, arg)>>
    /\ pc' = "done"
    /\ UNCHANGED <<now, rx_lines, bus, nlines, rx_last, settle_s, engine, rot, srv,
                   stop_evt, is_open, rx_pc, rx_raw, port, lock, woken, calls, arg, scan, pf, op,
                   timeout_s, deadline, next_poll, pop_deadline, w_time, sw, outcome, ev,
                   obs>>

\* the loop of _find_addresses, one address a: elliptec_trace.py calls
\* _send_and_wait_one(a + "gs", timeout_s=0.6, predicate for a,
\* clear_rx_queue=True, clear_rx_serial=True), which flushes the queue and
\* writes the frame; elliptec.py calls _send_and_read_one(a + "gs"), which
\* writes the frame and clears nothing; _send of elliptec_speed_serial.py
\* resets the input buffer of the port and writes the frame
ScanProbe ==
    /\ pc = "sc_next"
    /\ scan.todo # <<>>
    /\ LET a == Head(scan.todo) IN
       /\ wire' = Append(wire, <<a>> \o GET_STATUS)
       /\ w_time' = now
       /\ scan' = [scan EXCEPT !.cur = a,
                               !.owed = IF a \in scan.devices THEN @ \cup {a} ELSE @]
       /\ IF engine = "threaded"
          THEN /\ rx_lines' = <<>>
               /\ sw' = [NoSw EXCEPT !.timeout = StatusTimeout,
                                      !.pred = [tag |-> STATUS, addr |-> a]]
               /\ pc' = "sw_settle"
          ELSE /\ pc' = "y_settle"
               /\ rx_lines' = IF engine = "standalone" THEN <<>> ELSE rx_lines
               /\ sw' = sw
    /\ UNCHANGED <<now, bus, nlines, rx_last, address, settle_s, engine, rot, srv,
                   stop_evt, is_open, rx_pc, rx_raw, port, lock, woken, calls, arg, pf, op, timeout_s,
                   deadline, next_poll, pop_deadline, outcome, ev, obs>>

\* a device answers the status query of its address: the reader thread
\* queues the line with its timestamp (elliptec.py: the line reaches the input
\* buffer of the port).  heard keeps the addresses whose answer came while
\* their own probe was waiting for it: after its query was written and before
\* the probe timed out (an answer at the very instant of the timeout counts)
DeviceReply ==
    /\ pc \notin {"idle", "raised", "st_bound", "done"}
    /\ rx_last < now
    /\ \E a \in scan.owed :
         LET item == [ts |-> now, txt |-> StatusReplyOf(a)]
             waiting == pc \in {"sw_settle", "sw_loop", "sw_pop", "y_settle", "y_read"} IN
         /\ rx_lines' = IF engine = "threaded" THEN DequeAppend(rx_lines, item)
                        ELSE Append(rx_lines, item)
         /\ scan' = [scan EXCEPT !.owed = @ \ {a},
                                 !.heard = IF a = scan.cur /\ waiting
                                           THEN @ \cup {a} ELSE @]
    /\ rx_last' = now
    /\ UNCHANGED <<now, bus, nlines, wire, address, settle_s, engine, rot, srv,
                   stop_evt, is_open, rx_pc, rx_raw, port, lock, woken, calls, arg, pf, pc, op, timeout_s,
                   deadline, next_poll, pop_deadline, w_time, sw, outcome, ev, obs>>

\* elliptec_trace.py: what _find_addresses makes of the answer of
\* _send_and_wait_one: None and a line _parse_status_reply rejects are skipped
scan_reply(reply, a) ==
    IF reply = NoItem THEN FALSE
    ELSE parse_status_reply(reply.txt, a).ok

\* elliptec.py and elliptec_speed_serial.py:
\* r and len(r) >= 5 and r[0] == a and r[1:3] == "GS"
scan_line_sync(r, a) ==
    Len(r) > 0 /\ Len(r) >= 5 /\ r[1] = a /\ Slice(r, 1, 3) = STATUS

\* the probe of address a is over: found.append(a) or not, and the loop goes on
ProbeEnd(hit) ==
    /\ scan' = [scan EXCEPT !.found = IF hit THEN Append(@, scan.cur) ELSE @,
                            !.todo = Tail(@),
                            !.cur = ""]
    /\ pc' = "sc_next"

\* elliptec_trace.py: _send_and_wait_one has returned to _find_addresses
ScanReturn ==
    /\ pc = "sw_ret"
    /\ op = "scan"
    /\ ProbeEnd(scan_reply(sw.item, scan.cur))
    /\ UNCHANGED <<now, rx_lines, bus, nlines, rx_last, wire, address, settle_s, engine, rot, srv,
                   stop_evt, is_open, rx_pc, rx_raw, port, lock, woken, calls, arg, pf, op,
                   timeout_s, deadline, next_poll, pop_deadline, w_time, sw, outcome, ev, obs>>

\* elliptec.py: _readline returns the next line of the port
ScanReadLine ==
    /\ pc = "y_read"
    /\ op = "scan"
    /\ rx_lines # <<>>
    /\ rx_lines' = Tail(rx_lines)
    /\ ProbeEnd(scan_line_sync(Head(rx_lines).txt, scan.cur))
    /\ UNCHANGED <<now, bus, nlines, rx_last, wire, address, settle_s, engine, rot, srv,
                   stop_evt, is_open, rx_pc, rx_raw, port, lock, woken, calls, arg, pf, op,
                   timeout_s, deadline, next_poll, pop_deadline, w_time, sw, outcome, ev, obs>>

\* elliptec.py: _readline returns None after the read timeout of the port
ScanReadTimeout ==
    /\ pc = "y_read"
    /\ op = "scan"
    /\ rx_lines = <<>>
    /\ ReadTimedOut(now, pop_deadline)
    /\ ProbeEnd(FALSE)
    /\ UNCHANGED <<now, rx_lines, bus, nlines, rx_last, wire, address, settle_s, engine, rot, srv,
                   stop_evt, is_open, rx_pc, rx_raw, port, lock, woken, calls, arg, pf, op,
                   timeout_s, deadline, next_poll, pop_deadline, w_time, sw, outcome, ev, obs>>

\* bind_policy that binds the first address found, however many there are
bind_policy_first(addrs) ==
    IF Len(addrs) = 0 THEN [kind |-> "nodevice", a |-> ""]
    ELSE [kind |-> "bound", a |-> addrs[1]]

\* __init__ after _find_addresses: "No Elliptec device found", "Multiple
\* Elliptec devices found", or self._address = addrs[0]
bind_policy(addrs) ==
    IF Len(addrs) = 0 THEN [kind |-> "nodevice", a |-> ""]
    ELSE IF Len(addrs) > 1 THEN [kind |-> "ambiguous", a |-> ""]
    ELSE [kind |-> "bound", a |-> addrs[1]]

\* _find_addresses returns found; __init__ binds or raises
\* (elliptec_speed_serial.py: set_speed goes on with address = addrs[0])
ScanEnd ==
    /\ pc = "sc_next"
    /\ scan.todo = <<>>
    /\ scan' = [scan EXCEPT !.st = "scanned"]
    /\ LET b == bind_policy(scan.found) IN
       IF b.kind = "bound"
       THEN /\ address' = IF engine = "standalone" THEN <<b.a>> ELSE b.a
            /\ pc' = IF engine = "standalone" THEN "st_bound" ELSE "idle"
            /\ outcome' = outcome
       ELSE OpenRaise(b.kind) /\ address' = address
    /\ UNCHANGED <<now, rx_lines, bus, nlines, rx_last, wire, settle_s, engine, rot, srv,
                   stop_evt, is_open, rx_pc, rx_raw, port, lock, woken, calls, arg, pf, op,
                   timeout_s, deadline, next_poll, pop_deadline, w_time, sw, ev, obs>>

\* the percentages the standalone set_speed is called with
StandalonePercents == {50, 101}

\* the constructor is entered: the port is open and silent, nothing is
\* written; the caller gave an address or none, and the bounds of the scan
\* (elliptec_speed_serial.py: set_speed is entered with a percentage and an
\* address or none; its scan has no bounds to give)
InitScan ==
    /\ now = 0
    /\ rx_lines = <<>>
    /\ bus = Stream_Silent
    /\ nlines = 0
    /\ rx_last = NoTime
    /\ wire = <<>>
    /\ address = ""
    /\ engine \in {"threaded", "sync", "standalone"}
    /\ stop_evt = FALSE
    /\ rot = NoRot
    /\ srv = NoSrv
    /\ is_open = TRUE
    /\ rx_pc = "none"
    /\ rx_raw = <<>>
    /\ port = <<>>
    /\ lock = "free"
    /\ woken = FALSE
    /\ calls = 0
    /\ settle_s = IF engine = "threaded" THEN 0 ELSE SyncSettle
    /\ arg \in (IF engine = "standalone" THEN StandalonePercents ELSE {NoArg})
    /\ pf = NoPf
    /\ pc = "new"
    /\ op = "none"
    /\ timeout_s = 0
    /\ deadline = NoTime
    /\ next_poll = NoTime
    /\ pop_deadline = NoTime
    /\ w_time = NoTime
    /\ sw = NoSw
    /\ outcome = NoOutcome
    /\ ev = NoEv
    /\ obs = NoObs
    /\ \E has \in BOOLEAN, ad \in AddressInputs, mn \in BoundInputs, mx \in BoundInputs,
          devs \in SUBSET BusAddresses :
         /\ has \/ ad = <<>>
         /\ engine = "standalone" => (mn = <<"0">> /\ mx = <<HexChar(MaxAddress)>>)
         /\ scan = [st |-> "new", has_address |-> has, address |-> ad,
                    min_address |-> mn, max_address |-> mx, devices |-> devs,
                    todo |-> <<>>, cur |-> "", found |-> <<>>, owed |-> {},
                    heard |-> {}]

Discovery ==
    \/ Open
    \/ StandaloneOpen
    \/ StandaloneSend
    \/ ScanProbe
    \/ ScanReturn
    \/ ScanReadLine
    \/ ScanReadTimeout
    \/ ScanEnd

NextScan ==
    \/ DeviceReply
    \/ Tick
    \/ Discovery
    \/ SyncPollSent
    \/ Correlator

SpecScan == InitScan /\ [][NextScan]_vars

(* --------------------------- elliptec.py: stop -------------------------- *)

Line_GS03 == <<"0", "G", "S", "0", "3">>
Stream_CommandError == [lines |-> <<Line_GS03>>, loop |-> FALSE]

\* the reply streams stop is checked with
StopStreams == {Stream_CommandError, Stream_Ok, Stream_Fault, Stream_BusyBusyPos,
                Stream_BusyFault, Stream_Velocity, Stream_ShortStatus, Stream_Silent}

\* stop up to serial.write in _send_raw: _send_and_read_one(f"{addr}st")
\* with clear_rx=False
StopSend(t) ==
    /\ pc = "idle"
    /\ engine = "sync"
    /\ wire' = Append(wire, <<address>> \o STOP)
    /\ w_time' = now
    /\ op' = "stop"
    /\ timeout_s' = t
    /\ pc' = "t_settle"
    /\ ev' = NoEv
    /\ UNCHANGED <<now, rx_lines, bus, nlines, rx_last, address, settle_s, engine, rot, srv,
                   stop_evt, is_open, rx_pc, rx_raw, port, lock, woken, calls,
                   arg, scan, pf, deadline, next_poll, pop_deadline, sw, outcome, obs>>

\* _send_raw returns after flush and time.sleep(0.1); _send_and_read_one
\* calls self._readline()
StopSent ==
    /\ pc = "t_settle"
    /\ now >= w_time + settle_s
    /\ pop_deadline' = now + SerialTimeout
    /\ pc' = "t_read"
    /\ UNCHANGED <<now, rx_lines, bus, nlines, rx_last, wire, address, settle_s, engine, rot, srv,
                   stop_evt, is_open, rx_pc, rx_raw, port, lock, woken, calls,
                   arg, scan, pf, op, timeout_s, deadline, next_poll, w_time, sw, outcome,
                   ev, obs>>

\* what stop makes of the line r it has read: a Status reply that is neither
\* OK nor BUSY raises ElliptecError with the status, BUSY goes on to
\* _wait_until_done, OK and every reply with another tag return
stop_reply(r, a) ==
    IF Slice(r, 1, 3) # STATUS THEN [next |-> "done", kind |-> "none", status |-> NoStatus]
    ELSE LET st == parse_status_reply_sync(r, a) IN
         IF ~st.ok THEN [next |-> "raised", kind |-> "protocol", status |-> NoStatus]
         ELSE IF st.code \notin {OK, BUSY}
         THEN [next |-> "raised", kind |-> "device", status |-> st.code]
         ELSE IF st.code = BUSY THEN [next |-> "w_loop", kind |-> "none", status |-> NoStatus]
         ELSE [next |-> "done", kind |-> "none", status |-> NoStatus]

\* _readline returns the next line of the port; on BUSY _wait_until_done
\* starts: deadline = time.monotonic() + timeout_s
StopLine ==
    /\ pc = "t_read"
    /\ rx_lines # <<>>
    /\ LET line == Head(rx_lines).txt
           r == stop_reply(line, address) IN
       /\ rx_lines' = Tail(rx_lines)
       /\ pc' = r.next
       /\ outcome' = [EndOutcome(r.next, r.kind, r.status) EXCEPT !.status = r.status]
       /\ deadline' = IF r.next = "w_loop" THEN now + timeout_s ELSE deadline
       /\ ev' = [path |-> "stop", txt |-> line, stale |-> FALSE]
    /\ UNCHANGED <<now, bus, nlines, rx_last, wire, address, settle_s, engine, rot, srv,
                   stop_evt, is_open, rx_pc, rx_raw, port, lock, woken, calls,
                   arg, scan, pf, op, timeout_s, next_poll, pop_deadline, w_time, sw, obs>>

\* _readline returns None: "Timeout waiting for reply to stop()"
StopTimeout ==
    /\ pc = "t_read"
    /\ rx_lines = <<>>
    /\ ReadTimedOut(now, pop_deadline)
    /\ pc' = "raised"
    /\ outcome' = [NoOutcome EXCEPT !.res = "error", !.kind = "timeout"]
    /\ UNCHANGED <<now, rx_lines, bus, nlines, rx_last, wire, address, settle_s, engine, rot, srv,
                   stop_evt, is_open, rx_pc, rx_raw, port, lock, woken, calls,
                   arg, scan, pf, op, timeout_s, deadline, next_poll, pop_deadline, w_time, sw,
                   ev, obs>>

\* the session of elliptec.py after construction with address="0"
InitStop ==
    /\ now = 0
    /\ rx_lines = <<>>
    /\ bus \in StopStreams
    /\ nlines = 0
    /\ rx_last = NoTime
    /\ wire = <<>>
    /\ address = "0"
    /\ engine = "sync"
    /\ stop_evt = FALSE
    /\ rot = NoRot
    /\ srv = NoSrv
    /\ is_open = TRUE
    /\ rx_pc = "none"
    /\ rx_raw = <<>>
    /\ port = <<>>
    /\ lock = "free"
    /\ woken = FALSE
    /\ calls = 0
    /\ settle_s = SyncSettle
    /\ arg = NoArg
    /\ scan = NoScan
    /\ pf = NoPf
    /\ pc = "idle"
    /\ op = "none"
    /\ timeout_s = 0
    /\ deadline = NoTime
    /\ next_poll = NoTime
    /\ pop_deadline = NoTime
    /\ w_time = NoTime
    /\ sw = NoSw
    /\ outcome = NoOutcome
    /\ ev = NoEv
    /\ obs = NoObs

\* stop, and the _wait_until_done it calls on BUSY
Stop ==
    \/ \E t \in SyncTimeouts : StopSend(t)
    \/ StopSent
    \/ StopLine
    \/ StopTimeout
    \/ WaitLoop
    \/ WaitPopLine
    \/ WaitPopTimeout
    \/ SyncPoll
    \/ SyncPollSent
    \/ SyncPollLine
    \/ SyncPollTimeout

NextStop ==
    \/ RxLine
    \/ Tick
    \/ Stop

SpecStop == InitStop /\ [][NextStop]_vars

(* ------------------ the reader thread, the lock, close ----------------- *)

\* rx_thread.join(timeout=1.0), in ticks (shortened)
JoinTimeout == 2
\* the public operations called on one session
MaxCalls == 2

CRLF == <<"\r", "\n">>

\* the bytes the device sends, in the pieces the port receives them: a whole
\* reply, a reply in two pieces, two replies at once
Chunk_Line == Line_GS00 \o CRLF
Chunk_Head == <<"0", "G", "S">>
Chunk_Tail == <<"0", "0", "\r", "\n">>
Chunk_Two == (Line_GS09 \o CRLF) \o (Line_GS00 \o CRLF)

Bytes_Silent == [lines |-> <<>>, loop |-> FALSE]
Bytes_Line == [lines |-> <<Chunk_Line>>, loop |-> FALSE]
Bytes_Split == [lines |-> <<Chunk_Head, Chunk_Tail>>, loop |-> FALSE]
Bytes_Two == [lines |-> <<Chunk_Two>>, loop |-> FALSE]
\* more replies than the receive queue holds
Bytes_Flood == [lines |-> [i \in 1 .. (QueueCap + 1) |-> Chunk_Line], loop |-> FALSE]
ByteStreams == {Bytes_Silent, Bytes_Line, Bytes_Split, Bytes_Two, Bytes_Flood}

\* the place of the first "\n" in a byte string, 0 if there is none
FirstNewline(b) ==
    IF \E i \in 1 .. Len(b) : b[i] = "\n"
    THEN CHOOSE i \in 1 .. Len(b) : b[i] = "\n" /\ \A j \in 1 .. (i - 1) : b[j] # "\n"
    ELSE 0

EndsWithNewline(b) == Len(b) > 0 /\ b[Len(b)] = "\n"

\* txt.rstrip("\r\n")
RECURSIVE RStrip(_)
RStrip(b) ==
    IF Len(b) > 0 /\ b[Len(b)] \in {"\r", "\n"} THEN RStrip(SubSeq(b, 1, Len(b) - 1))
    ELSE b

\* the session has a reader thread (elliptec.py has none, and neither has
\* an object whose constructor raised before it made one)
HasReader == rx_pc \in {"test", "read", "sleep", "acquire", "append", "exited"}

\* the device sends its next bytes: they reach the input buffer of the open
\* port
ByteArrives ==
    /\ HasReader
    /\ is_open
    /\ nlines < Len(bus.lines)
    /\ port' = port \o bus.lines[nlines + 1]
    /\ nlines' = nlines + 1
    /\ UNCHANGED <<now, rx_lines, bus, rx_last, wire, address, settle_s, engine, rot, srv,
                   stop_evt, is_open, rx_pc, rx_raw, lock, woken, calls,
                   arg, scan, pf, pc, op, timeout_s, deadline, next_poll, pop_deadline,
                   w_time, sw, outcome, ev, obs>>

\* a loop that does not look at the stop signal
rx_loop_forever(stop) == "read"

\* while not self._stop_evt.is_set()
rx_loop_test(stop) == IF stop THEN "exited" ELSE "read"

\* the loop's test; raw = self._serial.readline() is entered
RxTest ==
    /\ rx_pc = "test"
    /\ rx_pc' = rx_loop_test(stop_evt)
    /\ rx_raw' = <<>>
    /\ UNCHANGED <<now, rx_lines, bus, nlines, rx_last, wire, address, settle_s, engine, rot, srv,
                   stop_evt, is_open, port, lock, woken, calls,
                   arg, scan, pf, pc, op, timeout_s, deadline, next_poll, pop_deadline,
                   w_time, sw, outcome, ev, obs>>

\* readline takes the bytes of the input buffer up to and including the
\* first "\n"
RxReadBytes ==
    /\ rx_pc = "read"
    /\ is_open
    /\ port # <<>>
    /\ ~EndsWithNewline(rx_raw)
    /\ LET n == IF FirstNewline(port) = 0 THEN Len(port) ELSE FirstNewline(port) IN
       /\ rx_raw' = rx_raw \o SubSeq(port, 1, n)
       /\ port' = SubSeq(port, n + 1, Len(port))
    /\ UNCHANGED <<now, rx_lines, bus, nlines, rx_last, wire, address, settle_s, engine, rot, srv,
                   stop_evt, is_open, rx_pc, lock, woken, calls,
                   arg, scan, pf, pc, op, timeout_s, deadline, next_poll, pop_deadline,
                   w_time, sw, outcome, ev, obs>>

\* what _rx_loop does with the bytes readline returned: "if not raw:
\* continue", else decode, timestamp and go for the lock
rx_read_return(raw) ==
    IF raw = <<>> THEN "test" ELSE "acquire"

\* readline returns: it has read the terminator, or no byte came within the
\* read timeout of the port and it returns what it has read so far; the
\* reader takes ts = time.monotonic()
RxReadReturn ==
    /\ rx_pc = "read"
    /\ is_open
    /\ EndsWithNewline(rx_raw) \/ port = <<>>
    /\ rx_pc' = rx_read_return(rx_raw)
    /\ rx_last' = IF rx_read_return(rx_raw) = "acquire" THEN now ELSE rx_last
    /\ UNCHANGED <<now, rx_lines, bus, nlines, wire, address, settle_s, engine, rot, srv,
                   stop_evt, is_open, rx_raw, port, lock, woken, calls,
                   arg, scan, pf, pc, op, timeout_s, deadline, next_poll, pop_deadline,
                   w_time, sw, outcome, ev, obs>>

\* readline raises because the port was closed under it: except Exception,
\* time.sleep(0.05)
RxReadRaise ==
    /\ rx_pc = "read"
    /\ ~is_open
    /\ rx_pc' = "sleep"
    /\ rx_raw' = <<>>
    /\ UNCHANGED <<now, rx_lines, bus, nlines, rx_last, wire, address, settle_s, engine, rot, srv,
                   stop_evt, is_open, port, lock, woken, calls,
                   arg, scan, pf, pc, op, timeout_s, deadline, next_poll, pop_deadline,
                   w_time, sw, outcome, ev, obs>>

\* the sleep is over: continue
RxSleep ==
    /\ rx_pc = "sleep"
    /\ rx_pc' = "test"
    /\ UNCHANGED <<now, rx_lines, bus, nlines, rx_last, wire, address, settle_s, engine, rot, srv,
                   stop_evt, is_open, rx_raw, port, lock, woken, calls,
                   arg, scan, pf, pc, op, timeout_s, deadline, next_poll, pop_deadline,
                   w_time, sw, outcome, ev, obs>>

\* with self._rx_cond: the reader gets the lock
RxAcquire ==
    /\ rx_pc = "acquire"
    /\ lock = "free"
    /\ lock' = "reader"
    /\ rx_pc' = "append"
    /\ UNCHANGED <<now, rx_lines, bus, nlines, rx_last, wire, address, settle_s, engine, rot, srv,
                   stop_evt, is_open, rx_raw, port, woken, calls,
                   arg, scan, pf, pc, op, timeout_s, deadline, next_poll, pop_deadline,
                   w_time, sw, outcome, ev, obs>>

\* no notification
notify_none(w, waiting) == w

\* self._rx_cond.notify_all(): a caller that waits on the condition is woken
notify_all(w, waiting) == w \/ waiting

\* self._rx_lines.append((ts, txt, raw)); self._rx_cond.notify_all(); the
\* lock is released.  (in_gap is the observer's mark on a line that is pushed
\* after the flush of a _send_and_wait_one and before its write)
RxAppend ==
    /\ rx_pc = "append"
    /\ lock = "reader"
    /\ rx_lines' = DequeAppend(rx_lines, [ts |-> rx_last, txt |-> RStrip(rx_raw),
                                          raw |-> rx_raw,
                                          in_gap |-> pc \in {"f_reset", "q_send"}])
    /\ woken' = notify_all(woken, pc = "p_wait")
    /\ lock' = "free"
    /\ rx_pc' = "test"
    /\ UNCHANGED <<now, bus, nlines, rx_last, wire, address, settle_s, engine, rot, srv,
                   stop_evt, is_open, rx_raw, port, calls,
                   arg, scan, pf, pc, op, timeout_s, deadline, next_poll, pop_deadline,
                   w_time, sw, outcome, ev, obs>>

\* the reader thread
Reader ==
    \/ RxTest
    \/ RxReadBytes
    \/ RxReadReturn
    \/ RxReadRaise
    \/ RxSleep
    \/ RxAcquire
    \/ RxAppend

\* close() is called: self._stop_evt.set() if the attribute is there; then
\* join(timeout=1.0) if the reader thread is there and alive (elliptec.py has
\* neither)
CloseSetStop ==
    /\ pc = "idle"
    /\ calls < MaxCalls
    /\ calls' = calls + 1
    /\ op' = "close"
    /\ outcome' = NoOutcome
    /\ stop_evt' = (stop_evt \/ HasReader)
    /\ IF HasReader /\ rx_pc # "exited"
       THEN pc' = "c_join" /\ deadline' = now + JoinTimeout
       ELSE pc' = "c_close" /\ deadline' = deadline
    /\ UNCHANGED <<now, rx_lines, bus, nlines, rx_last, wire, address, settle_s, engine, rot, srv,
                   is_open, rx_pc, rx_raw, port, lock, woken,
                   arg, scan, pf, timeout_s, next_poll, pop_deadline, w_time, sw, ev, obs>>

\* join returns: the reader has exited or the timeout has passed
CloseJoined ==
    /\ pc = "c_join"
    /\ rx_pc = "exited" \/ now >= deadline
    /\ pc' = "c_close"
    /\ UNCHANGED <<now, rx_lines, bus, nlines, rx_last, wire, address, settle_s, engine, rot, srv,
                   stop_evt, is_open, rx_pc, rx_raw, port, lock, woken, calls,
                   arg, scan, pf, op, timeout_s, deadline, next_poll, pop_deadline, w_time,
                   sw, outcome, ev, obs>>

\* how close() ends when serial.close() has returned (ok) or raised:
\* elliptec_trace.py swallows the exception, elliptec.py has no try
close_serial(eng, ok) ==
    IF ok \/ eng = "threaded" THEN "done" ELSE "raised"

\* if self._serial is there and is_open: self._serial.close(), which closes
\* the port or raises; after a failure the port may be open or closed
CloseSerial ==
    /\ pc = "c_close"
    /\ IF is_open
       THEN \E ok \in BOOLEAN :
              /\ is_open' \in (IF ok THEN {FALSE} ELSE BOOLEAN)
              /\ outcome' = IF close_serial(engine, ok) = "done"
                            THEN [NoOutcome EXCEPT !.res = "done"]
                            ELSE [NoOutcome EXCEPT !.res = "error", !.kind = "os"]
       ELSE /\ is_open' = is_open
            /\ outcome' = [NoOutcome EXCEPT !.res = "done"]
    /\ port' = IF is_open' THEN port ELSE <<>>
    /\ pc' = "idle"
    /\ UNCHANGED <<now, rx_lines, bus, nlines, rx_last, wire, address, settle_s, engine, rot, srv,
                   stop_evt, rx_pc, rx_raw, lock, woken, calls,
                   arg, scan, pf, op, timeout_s, deadline, next_poll, pop_deadline, w_time,
                   sw, ev, obs>>

Close ==
    \/ CloseSetStop
    \/ CloseJoined
    \/ CloseSerial

(* ------------- _pop_rx_line, listen, flush_rx, reset_parser ------------ *)

\* listen(duration_s), in ticks
ListenDurations == {1}
\* _pop_rx_line(timeout_s=0.2) of listen, in ticks (shortened)
ListenPop == 1
\* the timeouts _pop_rx_line is called with
PopTimeouts == {0, 1}

\* the session is constructed, its port is open and no call has been made
\* (a call is followed by calls of close() only)
Ready == pc = "idle" /\ calls = 0 /\ HasReader /\ is_open /\ engine = "threaded"

\* a call of a public operation begins
Call(name) ==
    /\ Ready
    /\ calls' = calls + 1
    /\ op' = name
    /\ ev' = NoEv

\* a call returns
Return(kind) ==
    /\ pc' = "idle"
    /\ outcome' = [NoOutcome EXCEPT !.res = "done", !.kind = kind]

\* _pop_rx_line(timeout_s=t) is called: deadline = time.monotonic() + t
PopCall(t) ==
    /\ Call("pop")
    /\ pop_deadline' = now + t
    /\ sw' = NoSw
    /\ pc' = "p_acquire"
    /\ UNCHANGED <<now, rx_lines, bus, nlines, rx_last, wire, address, settle_s, engine, rot, srv,
                   stop_evt, is_open, rx_pc, rx_raw, port, lock, woken,
                   arg, scan, pf, timeout_s, deadline, next_poll, w_time, outcome, obs>>

\* with self._rx_cond: the caller gets the lock (at first, and again when
\* Condition.wait returns)
PopAcquire ==
    /\ pc = "p_acquire"
    /\ lock = "free"
    /\ lock' = "caller"
    /\ pc' = "p_test"
    /\ UNCHANGED <<now, rx_lines, bus, nlines, rx_last, wire, address, settle_s, engine, rot, srv,
                   stop_evt, is_open, rx_pc, rx_raw, port, woken, calls,
                   arg, scan, pf, op, timeout_s, deadline, next_poll, pop_deadline, w_time,
                   sw, outcome, ev, obs>>

\* popleft that takes the newest entry
popleft_newest(q) == [item |-> q[Len(q)], rest |-> SubSeq(q, 1, Len(q) - 1)]

\* self._rx_lines.popleft()
popleft(q) == [item |-> Head(q), rest |-> Tail(q)]

\* where _pop_rx_line returns to
PopReturnsTo ==
    IF op = "listen" THEN "l_loop" ELSE IF op = "pop" THEN "p_ret" ELSE "q_got"

\* while not self._rx_lines: remaining = deadline - time.monotonic();
\* if remaining <= 0: return None; self._rx_cond.wait(timeout=remaining),
\* which releases the lock; else return self._rx_lines.popleft()
PopTest ==
    /\ pc = "p_test"
    /\ lock = "caller"
    /\ IF rx_lines # <<>>
       THEN /\ rx_lines' = popleft(rx_lines).rest
            /\ sw' = [sw EXCEPT !.item = popleft(rx_lines).item,
                                !.popped = Append(@, popleft(rx_lines).item)]
            /\ ev' = [path |-> "pop", txt |-> popleft(rx_lines).item.txt, stale |-> FALSE]
            /\ pc' = PopReturnsTo
            /\ woken' = woken
       ELSE /\ rx_lines' = rx_lines
            /\ sw' = [sw EXCEPT !.item = NoItem]
            /\ IF PopTimedOut(now, pop_deadline)
               THEN /\ pc' = PopReturnsTo
                    /\ ev' = [path |-> "pop", txt |-> <<>>, stale |-> FALSE]
                    /\ woken' = woken
               ELSE /\ pc' = "p_wait"
                    /\ ev' = ev
                    /\ woken' = FALSE
    /\ lock' = "free"
    /\ UNCHANGED <<now, bus, nlines, rx_last, wire, address, settle_s, engine, rot, srv,
                   stop_evt, is_open, rx_pc, rx_raw, port, calls,
                   arg, scan, pf, op, timeout_s, deadline, next_poll, pop_deadline, w_time,
                   outcome, obs>>

\* Condition.wait(timeout=remaining) returns: the caller was notified or the
\* timeout has passed
PopWake ==
    /\ pc = "p_wait"
    /\ woken \/ now >= pop_deadline
    /\ pc' = "p_acquire"
    /\ UNCHANGED <<now, rx_lines, bus, nlines, rx_last, wire, address, settle_s, engine, rot, srv,
                   stop_evt, is_open, rx_pc, rx_raw, port, lock, woken, calls,
                   arg, scan, pf, op, timeout_s, deadline, next_poll, pop_deadline, w_time,
                   sw, outcome, ev, obs>>

\* the direct call of _pop_rx_line returns
PopReturn ==
    /\ pc = "p_ret"
    /\ Return(IF sw.item = NoItem THEN "none" ELSE "line")
    /\ UNCHANGED <<now, rx_lines, bus, nlines, rx_last, wire, address, settle_s, engine, rot, srv,
                   stop_evt, is_open, rx_pc, rx_raw, port, lock, woken, calls,
                   arg, scan, pf, op, timeout_s, deadline, next_poll, pop_deadline, w_time,
                   sw, ev, obs>>

\* listen(duration_s): end = time.monotonic() + duration_s
ListenCall(d) ==
    /\ Call("listen")
    /\ deadline' = now + d
    /\ sw' = NoSw
    /\ pc' = "l_loop"
    /\ UNCHANGED <<now, rx_lines, bus, nlines, rx_last, wire, address, settle_s, engine, rot, srv,
                   stop_evt, is_open, rx_pc, rx_raw, port, lock, woken,
                   arg, scan, pf, timeout_s, next_poll, pop_deadline, w_time, outcome, obs>>

\* while time.monotonic() < end: item = self._pop_rx_line(timeout_s=0.2)
ListenLoop ==
    /\ pc = "l_loop"
    /\ IF now < deadline
       THEN /\ pop_deadline' = now + ListenPop
            /\ pc' = "p_acquire"
            /\ outcome' = outcome
       ELSE /\ pop_deadline' = pop_deadline
            /\ Return("none")
    /\ UNCHANGED <<now, rx_lines, bus, nlines, rx_last, wire, address, settle_s, engine, rot, srv,
                   stop_evt, is_open, rx_pc, rx_raw, port, lock, woken, calls,
                   arg, scan, pf, op, timeout_s, deadline, next_poll, w_time, sw, ev, obs>>

\* reset_parser(): self._serial.write(b"\r"); self._serial.flush()
ResetParser ==
    /\ Call("reset_parser")
    /\ wire' = Append(wire, CR)
    /\ Return("none")
    /\ UNCHANGED <<now, rx_lines, bus, nlines, rx_last, address, settle_s, engine, rot, srv,
                   stop_evt, is_open, rx_pc, rx_raw, port, lock, woken,
                   arg, scan, pf, timeout_s, deadline, next_poll, pop_deadline, w_time,
                   sw, obs>>

\* flush_rx(clear_serial_buffer=clear) is called
FlushCall(clear) ==
    /\ Call("flush_rx")
    /\ arg' = IF clear THEN 1 ELSE 0
    /\ pc' = "f_acquire"
    /\ UNCHANGED <<now, rx_lines, bus, nlines, rx_last, wire, address, settle_s, engine, rot, srv,
                   stop_evt, is_open, rx_pc, rx_raw, port, lock, woken,
                   scan, pf, timeout_s, deadline, next_poll, pop_deadline, w_time, sw, outcome, obs>>

\* with self._rx_cond: the caller gets the lock
FlushAcquire ==
    /\ pc = "f_acquire"
    /\ lock = "free"
    /\ lock' = "caller"
    /\ pc' = "f_clear"
    /\ UNCHANGED <<now, rx_lines, bus, nlines, rx_last, wire, address, settle_s, engine, rot, srv,
                   stop_evt, is_open, rx_pc, rx_raw, port, woken, calls,
                   arg, scan, pf, op, timeout_s, deadline, next_poll, pop_deadline, w_time,
                   sw, outcome, ev, obs>>

\* flush_clear that keeps the newest line
flush_clear_keep(q) == IF q = <<>> THEN q ELSE <<q[Len(q)]>>

\* self._rx_lines.clear()
flush_clear(q) == <<>>

\* n = len(self._rx_lines); self._rx_lines.clear(); the lock is released
FlushClear ==
    /\ pc = "f_clear"
    /\ lock = "caller"
    /\ rx_lines' = flush_clear(rx_lines)
    /\ lock' = "free"
    /\ pc' = "f_reset"
    /\ UNCHANGED <<now, bus, nlines, rx_last, wire, address, settle_s, engine, rot, srv,
                   stop_evt, is_open, rx_pc, rx_raw, port, woken, calls,
                   arg, scan, pf, op, timeout_s, deadline, next_poll, pop_deadline, w_time,
                   sw, outcome, ev, obs>>

\* if clear_serial_buffer: self._serial.reset_input_buffer() (an exception
\* is swallowed); flush_rx returns, to its caller or into _send_and_wait_one
FlushReset ==
    /\ pc = "f_reset"
    /\ port' = IF arg = 1 /\ is_open THEN <<>> ELSE port
    /\ IF op = "flush_rx" THEN Return("none") ELSE pc' = "q_send" /\ outcome' = outcome
    /\ UNCHANGED <<now, rx_lines, bus, nlines, rx_last, wire, address, settle_s, engine, rot, srv,
                   stop_evt, is_open, rx_pc, rx_raw, lock, woken, calls,
                   arg, scan, pf, op, timeout_s, deadline, next_poll, pop_deadline, w_time,
                   sw, ev, obs>>

\* the get_status(timeout_s=0.6) of _wait_until_done (clear = FALSE) or a
\* probe of _find_addresses for the address (clear = TRUE) enters _send_and_wait_one: if clear_rx_queue or
\* clear_rx_serial: self.flush_rx(clear_serial_buffer=clear_rx_serial)
SendCall(clear, t) ==
    /\ Call(IF clear THEN "probe" ELSE "get_status")
    /\ arg' = IF clear THEN 1 ELSE 0
    /\ sw' = [NoSw EXCEPT !.timeout = t, !.pred = [tag |-> STATUS, addr |-> address]]
    /\ pc' = IF clear THEN "f_acquire" ELSE "q_send"
    /\ UNCHANGED <<now, rx_lines, bus, nlines, rx_last, wire, address, settle_s, engine, rot, srv,
                   stop_evt, is_open, rx_pc, rx_raw, port, lock, woken,
                   scan, pf, timeout_s, deadline, next_poll, pop_deadline, w_time, outcome, obs>>

\* _send_raw up to serial.write
SendWrite ==
    /\ pc = "q_send"
    /\ wire' = Append(wire, <<address>> \o GET_STATUS)
    /\ w_time' = now
    /\ pc' = "q_settle"
    /\ UNCHANGED <<now, rx_lines, bus, nlines, rx_last, address, settle_s, engine, rot, srv,
                   stop_evt, is_open, rx_pc, rx_raw, port, lock, woken, calls,
                   arg, scan, pf, op, timeout_s, deadline, next_poll, pop_deadline, sw,
                   outcome, ev, obs>>

\* tx_ts = self._send_raw(cmd) returns time.monotonic() after flush and the
\* settle sleep; deadline = time.monotonic() + timeout_s
SendStamped ==
    /\ pc = "q_settle"
    /\ now >= w_time + settle_s
    /\ sw' = [sw EXCEPT !.tx_ts = now, !.deadline = now + sw.timeout]
    /\ pc' = "q_loop"
    /\ UNCHANGED <<now, rx_lines, bus, nlines, rx_last, wire, address, settle_s, engine, rot, srv,
                   stop_evt, is_open, rx_pc, rx_raw, port, lock, woken, calls,
                   arg, scan, pf, op, timeout_s, deadline, next_poll, pop_deadline, w_time,
                   outcome, ev, obs>>

\* while time.monotonic() < deadline: item = self._pop_rx_line(...); after
\* the loop: return None
SendWaits ==
    /\ pc = "q_loop"
    /\ IF now < sw.deadline
       THEN /\ pop_deadline' = now + Max(0, sw.deadline - now)
            /\ pc' = "p_acquire"
            /\ outcome' = outcome
            /\ sw' = sw
       ELSE /\ pop_deadline' = pop_deadline
            /\ sw' = [sw EXCEPT !.item = NoItem]
            /\ Return("none")
    /\ UNCHANGED <<now, rx_lines, bus, nlines, rx_last, wire, address, settle_s, engine, rot, srv,
                   stop_evt, is_open, rx_pc, rx_raw, port, lock, woken, calls,
                   arg, scan, pf, op, timeout_s, deadline, next_poll, w_time, ev, obs>>

\* _pop_rx_line has returned: None returns None, a stale line and a line the
\* predicate refuses go back to the loop, the first other line is returned
SendGot ==
    /\ pc = "q_got"
    /\ IF sw.item = NoItem
       THEN Return("none") /\ ev' = ev
       ELSE LET r == send_and_wait_step(sw.item, sw.tx_ts, sw.pred) IN
            /\ ev' = [ev EXCEPT !.stale = (r = "stale")]
            /\ IF r = "return" THEN Return("line") ELSE pc' = "q_loop" /\ outcome' = outcome
    /\ UNCHANGED <<now, rx_lines, bus, nlines, rx_last, wire, address, settle_s, engine, rot, srv,
                   stop_evt, is_open, rx_pc, rx_raw, port, lock, woken, calls,
                   arg, scan, pf, op, timeout_s, deadline, next_poll, pop_deadline, w_time,
                   sw, obs>>

\* the session after the constructor: elliptec_trace.py with its reader
\* started, or an object whose constructor raised in _open; elliptec.py
InitRx ==
    /\ now = 0
    /\ rx_lines = <<>>
    /\ engine \in {"threaded", "sync"}
    /\ rx_pc \in (IF engine = "threaded" THEN {"test", "unbuilt"} ELSE {"absent"})
    /\ bus \in (IF rx_pc = "test" THEN ByteStreams ELSE {Bytes_Silent})
    /\ nlines = 0
    /\ rx_last = NoTime
    /\ wire = <<>>
    /\ address = "0"
    /\ stop_evt = FALSE
    /\ rot = NoRot
    /\ srv = NoSrv
    /\ is_open = (rx_pc # "unbuilt")
    /\ rx_raw = <<>>
    /\ port = <<>>
    /\ lock = "free"
    /\ woken = FALSE
    /\ calls = 0
    /\ settle_s = 0
    /\ arg = NoArg
    /\ scan = NoScan
    /\ pf = NoPf
    /\ pc = "idle"
    /\ op = "none"
    /\ timeout_s = 0
    /\ deadline = NoTime
    /\ next_poll = NoTime
    /\ pop_deadline = NoTime
    /\ w_time = NoTime
    /\ sw = NoSw
    /\ outcome = NoOutcome
    /\ ev = NoEv
    /\ obs = NoObs

\* the caller's thread
CallerRx ==
    \/ Close
    \/ \E t \in PopTimeouts : PopCall(t)
    \/ PopAcquire
    \/ PopTest
    \/ PopWake
    \/ PopReturn
    \/ \E d \in ListenDurations : ListenCall(d)
    \/ ListenLoop
    \/ ResetParser
    \/ \E clear \in BOOLEAN : FlushCall(clear)
    \/ FlushAcquire
    \/ FlushClear
    \/ FlushReset
    \/ \E clear \in BOOLEAN : SendCall(clear, StatusTimeout)
    \/ SendWrite
    \/ SendStamped
    \/ SendWaits
    \/ SendGot

NextRx ==
    \/ ByteArrives
    \/ Reader
    \/ CallerRx
    \/ Tick

SpecRx == InitRx /\ [][NextRx]_vars

\* the threads are scheduled and the monotonic clock advances
SpecRxLive == SpecRx /\ WF_vars(Reader) /\ WF_vars(CallerRx) /\ WF_vars(Tick)

(* ------------------------- the helper functions ------------------------ *)

\* the hex digits of the scaled-down long: _encode_long32 has 8 (32 bits)
ScaledDigits == 2

HostCommands == {GET_STATUS, GET_VELOCITY, SET_VELOCITY, HOME, MOVE_ABSOLUTE,
                 MOVE_RELATIVE, GET_POSITION, STOP}

\* 16 ** n
RECURSIVE Pow16(_)
Pow16(n) == IF n = 0 THEN 1 ELSE 16 * Pow16(n - 1)

\* f"{u:0{n}X}" for 0 <= u < 16 ** n
RECURSIVE HexN(_, _)
HexN(u, n) == IF n = 0 THEN <<>> ELSE Append(HexN(u \div 16, n - 1), HexChar(u % 16))

\* int(h, 16) on a string of hex digits
RECURSIVE IntHexDigits(_)
IntHexDigits(h) ==
    IF Len(h) = 0 THEN 0
    ELSE 16 * IntHexDigits(SubSeq(h, 1, Len(h) - 1)) + HexDigitValue(h[Len(h)])

\* int(h, 16): -1 stands for ValueError
IntHex(h) ==
    IF Len(h) = 0 \/ \E i \in 1 .. Len(h) : HexDigitValue(h[i]) < 0 THEN -1
    ELSE IntHexDigits(h)

\* str(int(n))
RECURSIVE DecStr(_)
DecStr(n) ==
    IF n < 0 THEN <<"-">> \o DecStr(0 - n)
    ELSE IF n < 10 THEN <<HexChar(n)>>
    ELSE Append(DecStr(n \div 10), HexChar(n % 10))

\* _parse_status_reply of base/helpers.py: a code outside the enumeration is
\* COMMAND_ERROR_OR_NOT_SUPPORTED
parse_status_reply_base(reply, a) ==
    IF Len(reply) < 5 \/ reply[1] # a \/ Slice(reply, 1, 3) # STATUS
    THEN [ok |-> FALSE, code |-> NoStatus]
    ELSE LET code == IntHex2(Slice(reply, 3, 5)) IN
         IF code < 0 THEN [ok |-> FALSE, code |-> NoStatus]
         ELSE IF code \in SyncStatusCodeValues THEN [ok |-> TRUE, code |-> code]
         ELSE [ok |-> TRUE, code |-> COMMAND_ERROR_OR_NOT_SUPPORTED]

\* _encode_long32 with n hex digits instead of 8:
\* f"{(value & (16 ** n - 1)):0{n}X}"
encode_long(value, n) == HexN(value % Pow16(n), n)

\* the signed reading of _parse_position_reply with n hex digits instead of
\* 8: raw = int(hex, 16); if raw & (16 ** n // 2): raw -= 16 ** n
parse_long(hex, n) ==
    LET raw == IntHex(hex) IN
    IF raw < 0 THEN [ok |-> FALSE, value |-> 0]
    ELSE IF (raw \div (Pow16(n) \div 2)) % 2 = 1
    THEN [ok |-> TRUE, value |-> raw - Pow16(n)]
    ELSE [ok |-> TRUE, value |-> raw]

\* parse_position_reply that clears bit 31 instead of subtracting 2 ** 32
parse_position_reply_unsigned(reply, a) ==
    IF Len(reply) < 11 \/ reply[1] # a \/ Slice(reply, 1, 3) # POSITION
    THEN [ok |-> FALSE, value |-> 0]
    ELSE LET top == HexDigitValue(reply[4])
             low == IntHex(Slice(reply, 4, 11)) IN
         IF top < 0 \/ low < 0 THEN [ok |-> FALSE, value |-> 0]
         ELSE [ok |-> TRUE, value |-> (top % 8) * 268435456 + low]

\* _parse_position_reply: ElliptecError ([ok |-> FALSE]) on a short line,
\* another address, another tag or a malformed value; raw = int(reply[3:11],
\* 16), and raw - 2 ** 32 if bit 31 is set (the top digit is read apart:
\* 2 ** 32 is no number of the model checker)
parse_position_reply(reply, a) ==
    IF Len(reply) < 11 \/ reply[1] # a \/ Slice(reply, 1, 3) # POSITION
    THEN [ok |-> FALSE, value |-> 0]
    ELSE LET top == HexDigitValue(reply[4])
             low == IntHex(Slice(reply, 4, 11)) IN
         IF top < 0 \/ low < 0 THEN [ok |-> FALSE, value |-> 0]
         ELSE IF top >= 8
         THEN [ok |-> TRUE, value |-> (((top - 8) * 268435456 + low) - 2147483647) - 1]
         ELSE [ok |-> TRUE, value |-> top * 268435456 + low]

\* the frame a session hands to _send_raw / _send_and_read_one for a command:
\* get_status, get_speed, get_position_counts and stop send the address and
\* the mnemonic; home adds str(int(direction)), set_speed the two hex digits
\* of the percentage, move_absolute and move_relative _encode_long32(counts)
host_frame(cmd, a, n) ==
    IF cmd = HOME THEN <<a>> \o cmd \o DecStr(n)
    ELSE IF cmd = SET_VELOCITY THEN <<a>> \o cmd \o percent_to_hex_byte(n).hex
    ELSE IF cmd \in {MOVE_ABSOLUTE, MOVE_RELATIVE} THEN <<a>> \o cmd \o encode_long32(n)
    ELSE <<a>> \o cmd

\* the characters of a reply's value field: the hex digits, two lower-case
\* ones and a letter that is no hex digit
CodeChars == HEX_DIGITS \cup {"a", "f", "g"}

\* reply lines: every value field after a Status or Velocity tag for two
\* addresses, and lines that are too short
PureReplies ==
    {<<ra>> \o tag \o <<x, y>> :
        ra \in {"0", "A"}, tag \in {STATUS, VELOCITY}, x \in CodeChars, y \in CodeChars}
    \cup {<<>>, <<"0">>, <<"0", "G", "S">>, <<"0", "G", "S", "0">>,
          <<"0", "G", "S", "0", "9", "x">>}

\* signed 32-bit values: both ends, the values around the digit boundaries
\* and around zero
Int32Samples ==
    {(0 - 2147483647) - 1, 0 - 2147483647, 0 - 268435457, 0 - 268435456, 0 - 65536,
     65535, 268435455, 268435456, 2147483646, 2147483647}
    \cup (0 - 17 .. 17)

\* integers from far below to far above the range of the scaled-down long
ScaledValues == (0 - 2 * Pow16(ScaledDigits)) .. (2 * Pow16(ScaledDigits))

\* the directions home is called with: HomeDirection.CW, HomeDirection.CCW
\* and plain integers, which int(direction) takes as well
HomeDirections == {0, 1, 2, 10}

\* the arguments a command is called with
FrameArgs(cmd) ==
    IF cmd = HOME THEN HomeDirections
    ELSE IF cmd = SET_VELOCITY THEN 0 .. 100
    ELSE IF cmd \in {MOVE_ABSOLUTE, MOVE_RELATIVE} THEN Int32Samples
    ELSE {0}

PureInput(kind, s, a, n) == [fn |-> "none", kind |-> kind, s |-> s, a |-> a, n |-> n]

\* the inputs of the helper functions
PureInputs ==
    {PureInput("line", r, a, 0) : r \in PureReplies, a \in {"0", "A"}}
    \cup {PureInput("int32", <<>>, a, v) : a \in {"0", "F"}, v \in Int32Samples}
    \cup {PureInput("scaled", <<>>, "0", v) : v \in ScaledValues}
    \cup {PureInput("percent", <<>>, a, p) : a \in {"0", "A"}, p \in 0 .. 100}
    \cup UNION {{PureInput("frame", cmd, a, n) : a \in {"0", "A"}, n \in FrameArgs(cmd)} :
                  cmd \in HostCommands}
    \cup {PureInput("standalone", s, "", p) : s \in AddressInputs, p \in {0, 50, 100}}

\* a helper function has returned out
PureReturn(kind, fn, out) ==
    /\ pf.fn = "none"
    /\ pf.kind = kind
    /\ pf' = [pf EXCEPT !.fn = fn] @@ [out |-> out]
    /\ UNCHANGED <<now, rx_lines, bus, nlines, rx_last, wire, address, settle_s, engine, rot, srv,
                   stop_evt, is_open, rx_pc, rx_raw, port, lock, woken, calls, arg,
                   scan, pc, op, timeout_s, deadline, next_poll, pop_deadline, w_time, sw,
                   outcome, ev, obs>>

\* _parse_status_reply of elliptec_trace.py, of elliptec.py and of
\* base/helpers.py applied to a line and an address
ApplyParseStatus ==
    \/ PureReturn("line", "parse_status_reply", parse_status_reply(pf.s, pf.a))
    \/ PureReturn("line", "parse_status_reply_sync", parse_status_reply_sync(pf.s, pf.a))
    \/ PureReturn("line", "parse_status_reply_base", parse_status_reply_base(pf.s, pf.a))

\* _parse_position_reply applied to the Position reply that carries
\* _encode_long32 of a value
ApplyRoundTrip ==
    PureReturn("int32", "round_trip",
               [enc |-> encode_long32(pf.n),
                dec |-> parse_position_reply(<<pf.a>> \o POSITION \o encode_long32(pf.n),
                                             pf.a)])

\* the same with the scaled-down long
ApplyRoundTripScaled ==
    PureReturn("scaled", "round_trip_scaled",
               [enc |-> encode_long(pf.n, ScaledDigits),
                dec |-> parse_long(encode_long(pf.n, ScaledDigits), ScaledDigits)])

\* _parse_velocity_reply applied to a line and an address
ApplyParseVelocity ==
    PureReturn("line", "parse_velocity_reply", parse_velocity_reply(pf.s, pf.a))

\* _parse_velocity_reply applied to the Velocity reply that carries
\* _encode_u8_percent of a percentage
ApplyVelocityRoundTrip ==
    PureReturn("percent", "velocity_round_trip",
               parse_velocity_reply(<<pf.a>> \o VELOCITY \o percent_to_hex_byte(pf.n).hex, pf.a))

\* a session builds the frame of a command
ApplyFrame ==
    PureReturn("frame", "host_frame", host_frame(pf.s, pf.a, pf.n))

\* the standalone set_speed builds its frame
ApplyStandaloneFrame ==
    PureReturn("standalone", "standalone_frame", standalone_frame(pf.s, pf.n))

InitPure ==
    /\ now = 0
    /\ rx_lines = <<>>
    /\ bus = Stream_Silent
    /\ nlines = 0
    /\ rx_last = NoTime
    /\ wire = <<>>
    /\ address = "0"
    /\ engine = "threaded"
    /\ stop_evt = FALSE
    /\ rot = NoRot
    /\ srv = NoSrv
    /\ is_open = TRUE
    /\ rx_pc = "none"
    /\ rx_raw = <<>>
    /\ port = <<>>
    /\ lock = "free"
    /\ woken = FALSE
    /\ calls = 0
    /\ settle_s = 0
    /\ arg = NoArg
    /\ scan = NoScan
    /\ pf \in PureInputs
    /\ pc = "helpers"
    /\ op = "none"
    /\ timeout_s = 0
    /\ deadline = NoTime
    /\ next_poll = NoTime
    /\ pop_deadline = NoTime
    /\ w_time = NoTime
    /\ sw = NoSw
    /\ outcome = NoOutcome
    /\ ev = NoEv
    /\ obs = NoObs

NextPure ==
    \/ ApplyParseStatus
    \/ ApplyRoundTrip
    \/ ApplyRoundTripScaled
    \/ ApplyParseVelocity
    \/ ApplyVelocityRoundTrip
    \/ ApplyFrame
    \/ ApplyStandaloneFrame

SpecPure == InitPure /\ [][NextPure]_vars

(* ------------------------------ claims --------------------------------- *)

\* the motion call is in _wait_until_done and has neither returned nor raised
Waiting ==
    /\ op = "move"
    /\ pc \in {"w_loop", "w_pop", "w_poll", "sw_settle", "sw_loop", "sw_pop", "sw_ret",
              "y_settle", "y_read"}
    /\ outcome = NoOutcome

Ended == pc \in {"done", "raised"}

\* a motion call all of whose reply lines came after its command was written
Move == op = "move" /\ ~obs.pre

\* the caller's last step took a line off the queue that the motion wait looked
\* at: popped by the loop itself, or handed back by the poll's get_status
Consumed(line) ==
    /\ op = "move"
    /\ ev.txt = line
    /\ \/ ev.path = "async"
       \/ ev.path = "poll" /\ ~ev.stale /\ pc # "sw_ret"

\* C1 (as claimed): a motion call of the threaded engine that took a Position
\* line for its address off the queue before its deadline, with no fault
\* Status consumed before, returns DONE; it does not raise
C1_PositionCompletes ==
    (engine = "threaded" /\ Move /\ obs.po /\ Ended) => pc = "done"

C3_BusyKeepsWaiting ==
    (op = "move" /\ ev.path # "none" /\ IsBusyLine(ev.txt, address)) => Waiting

C3_Witness ==
    /\ Move
    /\ Consumed(Line_GS09)
    /\ ev.path = "poll"
    /\ obs.nbusy = 2
    /\ pc = "w_loop"

\* C4 (as claimed): once the call has taken a fault Status for its address off
\* the queue, it has failed with exactly that status and wrote no frame since
C4_FaultFailsAtOnce ==
    (Move /\ obs.fault # NoStatus /\ pc # "sw_ret") =>
        /\ pc = "raised"
        /\ outcome.status = obs.fault
        /\ Len(wire) = obs.faultwire

\* a line that is neither a well-formed Status nor a well-formed Position reply
\* of the bound address: another address, empty, too short or malformed
Foreign(line) == ~IsStatusFor(line, address) /\ ~IsPositionFor(line, address)

\* C5 (as claimed): a line of another address, an empty line, or a line too
\* short or malformed to be a Status or Position reply is ignored: after the
\* call has taken it off the queue, on either path, the call is still waiting
C5_ForeignLinesIgnored ==
    (Move /\ ev.path # "none" /\ Foreign(ev.txt)) => Waiting

\* the bus only ever delivers busy Status lines of the bound address
OnlyBusy ==
    \A i \in 1 .. Len(bus.lines) : IsBusyLine(bus.lines[i], address)

\* C6 (as claimed): if the device only ever reports busy, the motion call
\* ends with the timeout error (no status code), not before its deadline,
\* and never with a device error
C6_BusyOnlyTimesOut ==
    (Move /\ OnlyBusy /\ obs.nbusy >= 1 /\ Ended) =>
        /\ pc = "raised"
        /\ outcome.kind = "timeout"
        /\ outcome.status = NoStatus
        /\ now >= deadline

C8_MotionTerminates ==
    (op = "move") ~> Ended

C8_Witness ==
    /\ Move
    /\ bus.loop
    /\ obs.nbusy = 2
    /\ Ended


\* _send_and_wait_one has returned a line to its caller
Returned == pc = "sw_ret" /\ sw.item # NoItem

Accepted(item) == ~IsStale(item.ts, sw.tx_ts) /\ Predicate(sw.pred, item.txt)

\* a step in which _send_and_wait_one takes a line
SendTakes == sw'.popped # sw.popped /\ sw'.popped # <<>>

\* C10: _send_and_wait_one returns the first line, in queue order, that is
\* fresh and satisfies the predicate: the call took its lines from the head
\* of the queue, one by one, leaving the rest as it was; the returned line is
\* the last it took, and every line it took before is one the test rejects
C10_FirstMatch ==
    /\ [](Returned =>
            /\ Len(sw.popped) >= 1
            /\ sw.popped[Len(sw.popped)] = sw.item
            /\ Accepted(sw.item)
            /\ \A i \in 1 .. Len(sw.popped) - 1 : ~Accepted(sw.popped[i]))
    /\ [][SendTakes => (/\ rx_lines # <<>>
                         /\ rx_lines' = Tail(rx_lines)
                         /\ sw'.popped = Append(sw.popped, Head(rx_lines)))]_vars

C10_Witness ==
    /\ Returned
    /\ Len(sw.popped) >= 2
    /\ rx_lines # <<>>
    /\ sw.item.txt = Line_GV32

\* a correlated wait of a public query: get_status, get_speed or set_speed
\* has written its frame
InQuery == op \in QueryOps /\ wire # <<>>

\* C11: a correlated wait terminates, even when lines that do not match keep
\* arriving; and a query that has ended without having taken a fresh line
\* that satisfies its predicate got no line from _send_and_wait_one and raised
\* the timeout error
C11_WaitTimesOut ==
    /\ InQuery ~> Ended
    /\ []((InQuery /\ Ended /\ \A i \in 1 .. Len(sw.popped) : ~Accepted(sw.popped[i]))
            => /\ sw.item = NoItem
               /\ pc = "raised"
               /\ outcome.kind = "timeout")

C11_Witness ==
    /\ op = "get_speed"
    /\ bus = Stream_BusyForEver
    /\ Ended
    /\ Len(sw.popped) >= 2
    /\ \A i \in 1 .. Len(sw.popped) : ~IsStale(sw.popped[i].ts, sw.tx_ts)
    /\ outcome.kind = "timeout"

\* the correlated wait of a query has returned None and the query has ended
TimedOutQuery == InQuery /\ Ended /\ sw.item = NoItem

Scanned == scan.st = "scanned"

\* the addresses _find_addresses returned, as a set
FoundSet == {scan.found[i] : i \in 1 .. Len(scan.found)}

\* C13 (as claimed): the scan returns exactly the addresses whose Status reply
\* was received after their own query was written and before their probe's
\* timeout: none more (soundness), none less (completeness)
C13_ScanExact ==
    Scanned => FoundSet = scan.heard

\* C14 (as claimed): a scan first writes the single byte CR, and then one
\* status query per address of the range, in ascending order; at every moment
\* of the scan the wire holds a prefix of that sequence, and all of it when
\* the scan has returned
ScanFrames ==
    LET r == address_range(normalize_address(scan.min_address).a,
                           normalize_address(scan.max_address).a) IN
    <<CR>> \o [i \in 1 .. Len(r) |-> <<r[i]>> \o GET_STATUS]

C14_ResetThenAscending ==
    (scan.st \in {"scanning", "scanned"} /\ pc # "done") =>
        /\ Len(wire) <= Len(ScanFrames)
        /\ wire = SubSeq(ScanFrames, 1, Len(wire))
        /\ Scanned => wire = ScanFrames

\* C15: the binding policy: no address found raises the no-device error, more
\* than one the ambiguous-bus error, exactly one is bound; with an address
\* given no scan is run and nothing is written during open
C15_BindingPolicy ==
    /\ Scanned =>
         /\ Len(scan.found) = 0 => (pc = "raised" /\ outcome.kind = "nodevice")
         /\ Len(scan.found) > 1 => (pc = "raised" /\ outcome.kind = "ambiguous")
         /\ (Len(scan.found) = 1 /\ engine # "standalone") =>
                (pc = "idle" /\ address = scan.found[1] /\ outcome = NoOutcome)
         /\ (Len(scan.found) = 1 /\ engine = "standalone") =>
                (pc \in {"st_bound", "done"} /\ address = <<scan.found[1]>>
                   /\ outcome = NoOutcome)
    /\ scan.has_address =>
         /\ scan.st = "new"
         /\ scan.found = <<>>
         /\ pc \in {"new", "idle", "raised", "st_bound", "done"}
         /\ pc # "done" => wire = <<>>
         /\ pc = "idle" => address = normalize_address(scan.address).a

C15_Witness ==
    /\ Scanned
    /\ Len(scan.found) = 2
    /\ engine = "threaded"
    /\ outcome.kind = "ambiguous"

\* a string that is one hex digit, in either case
IsHexAddress(addr) == Len(addr) = 1 /\ HexDigitValue(addr[1]) >= 0

\* C18 (as claimed): an address that is not one hex digit, given as the
\* address or as a bound of a scan that is run, is rejected with a validation
\* error before any byte is written, by the constructors and by the
\* standalone set_speed; an accepted address is bound in upper case
C18_MalformedRejected ==
    /\ (pc \notin {"new", "st_bound"}
          /\ \/ scan.has_address /\ ~IsHexAddress(scan.address)
             \/ ~scan.has_address /\ ~IsHexAddress(scan.min_address)
             \/ ~scan.has_address /\ ~IsHexAddress(scan.max_address)) =>
          /\ pc = "raised"
          /\ outcome.kind = "validation"
          /\ wire = <<>>
    /\ pc = "idle" => address \in HEX_DIGITS
    /\ pc = "done" => (Len(address) = 1 /\ address[1] \in HEX_DIGITS)

\* C17: set_speed validates before it sends: with a percentage outside
\* [0, 100] it raises the validation error and nothing is written; with one
\* inside, the wire holds exactly one frame, the address, "sv" and two
\* upper-case hex digits whose value is the percentage (0 is "00", 100 is "64")
C17_SetSpeedValidates ==
    op = "set_speed" =>
        IF arg < 0 \/ arg > 100
        THEN pc = "raised" /\ outcome.kind = "validation" /\ wire = <<>>
        ELSE /\ Len(wire) = 1
             /\ Len(wire[1]) = 5
             /\ Slice(wire[1], 0, 3) = <<address>> \o SET_VELOCITY
             /\ wire[1][4] \in HEX_DIGITS /\ wire[1][5] \in HEX_DIGITS
             /\ IntHex2(Slice(wire[1], 3, 5)) = arg
             /\ arg = 0 => Slice(wire[1], 3, 5) = <<"0", "0">>
             /\ arg = 100 => Slice(wire[1], 3, 5) = <<"6", "4">>

C17_Witness ==
    /\ op = "set_speed"
    /\ arg = 100
    /\ wire = <<<<"0", "s", "v", "6", "4">>>>
    /\ pc = "done"

\* the length the protocol fixes for the frame of a mnemonic
FrameLength(cmd) ==
    IF cmd \in {GET_STATUS, GET_VELOCITY, GET_POSITION, STOP} THEN 3
    ELSE IF cmd = HOME THEN 4
    ELSE IF cmd = SET_VELOCITY THEN 5
    ELSE 11

\* a frame a public operation has built, with its mnemonic
BuiltFrame == pf.fn \in {"host_frame", "standalone_frame"}
MnemonicOf == IF pf.fn = "host_frame" THEN pf.s ELSE SET_VELOCITY

\* C16: every frame a public operation builds has the length fixed for its
\* mnemonic (gs/gv/gp/st 3, ho 4, sv 5, mr/ma 11), its payload is made of
\* uppercase hex digits and it carries no terminator, for every accepted
\* argument and address.
C16_FrameLengths ==
    BuiltFrame =>
        /\ Len(pf.out) = FrameLength(MnemonicOf)
        /\ \A i \in 1 .. Len(pf.out) : pf.out[i] \notin {"\r", "\n"}
        /\ \A i \in 4 .. Len(pf.out) : pf.out[i] \in HEX_DIGITS

\* C19: decoding a Status reply never fails because of an unknown code: a
\* line of the address with the Status tag and two hex digits gives the code
\* of its value if that is 00..0D and the fallback value otherwise; a line
\* that is short, of another address or of another tag is a protocol error.
StatusFallback ==
    IF pf.fn = "parse_status_reply" THEN UNKNOWN ELSE COMMAND_ERROR_OR_NOT_SUPPORTED
C19_StatusDecodeTotal ==
    pf.fn \in {"parse_status_reply", "parse_status_reply_sync", "parse_status_reply_base"} =>
        IF Len(pf.s) < 5 \/ pf.s[1] # pf.a \/ <<pf.s[2], pf.s[3]>> # STATUS
        THEN ~pf.out.ok
        ELSE \A x \in 0 .. 15 : \A y \in 0 .. 15 :
                (Upper(pf.s[4]) = HexChar(x) /\ Upper(pf.s[5]) = HexChar(y)) =>
                    /\ pf.out.ok
                    /\ pf.out.code = IF 16 * x + y <= 13 THEN 16 * x + y ELSE StatusFallback
C19_Witness ==
    /\ pf.fn = "parse_status_reply"
    /\ pf.s = <<"0", "G", "S", "F", "E">>
    /\ pf.a = "0"
    /\ pf.out = [ok |-> TRUE, code |-> UNKNOWN]

\* C20: the position encoding round-trips through two's complement: the
\* Position reply that carries _encode_long32(v) decodes to v for every signed
\* 32-bit v and every address, the encoding is always exactly the fixed number
\* of uppercase hex digits, and an integer outside the range wraps (shown
\* with the scaled-down width) instead of raising.
C20_PositionRoundTrip ==
    /\ pf.fn = "round_trip" =>
        /\ Len(pf.out.enc) = 8
        /\ \A i \in 1 .. 8 : pf.out.enc[i] \in HEX_DIGITS
        /\ pf.out.dec = [ok |-> TRUE, value |-> pf.n]
    /\ pf.fn = "round_trip_scaled" =>
        LET half == Pow16(ScaledDigits) \div 2 IN
        /\ Len(pf.out.enc) = ScaledDigits
        /\ \A i \in 1 .. ScaledDigits : pf.out.enc[i] \in HEX_DIGITS
        /\ pf.out.dec.ok
        /\ pf.out.dec.value \in (0 - half) .. (half - 1)
        /\ (pf.out.dec.value - pf.n) % Pow16(ScaledDigits) = 0
        /\ pf.n \in (0 - half) .. (half - 1) => pf.out.dec.value = pf.n
C20_Witness ==
    /\ pf.fn = "round_trip"
    /\ pf.n = (0 - 2147483647) - 1
    /\ pf.out.enc = <<"8", "0", "0", "0", "0", "0", "0", "0">>
    /\ pf.out.dec = [ok |-> TRUE, value |-> pf.n]

\* C21: the velocity round-trips and stays a percent: the Velocity reply that
\* carries the two hex digits of p in 0..100 decodes to p for every address,
\* and every value _parse_velocity_reply returns for an accepted reply is a
\* percent in 0..100.
C21_VelocityIsPercent ==
    /\ pf.fn = "velocity_round_trip" => pf.out = [ok |-> TRUE, code |-> pf.n]
    /\ (pf.fn = "parse_velocity_reply" /\ pf.out.ok) => pf.out.code \in 0 .. 100

\* stop has read the Status reply with the command-error code as its answer
StopGotCommandError ==
    /\ op = "stop"
    /\ ev.path = "stop"
    /\ ev.txt = Line_GS03

\* C22: for stop a Status reply of the command-error class (code 03) is a
\* normal outcome: stop does not raise for it but returns, reporting the
\* status to the caller.
C22_StopCommandErrorIsNormal ==
    StopGotCommandError =>
        /\ pc = "done"
        /\ outcome.res = "done"
        /\ outcome.status = COMMAND_ERROR_OR_NOT_SUPPORTED

\* close() has returned or raised
CloseEnded == op = "close" /\ pc = "idle"

\* C23: close() never raises and always releases: from every state (reader
\* running, reader in a read, reader exited, port already closed, a second
\* close(), an object only partly constructed) close() returns normally with
\* the stop signal set and the serial connection closed.
C23_CloseNeverRaises ==
    CloseEnded =>
        /\ outcome.res = "done"
        /\ HasReader => stop_evt
        /\ ~is_open

\* C24: the reader's shutdown is live and bounded: once the stop signal is set
\* the reader loop exits on every path, close() waits for it no longer than
\* the timeout of its join, and after the reader has exited no line is
\* appended to the receive queue.
C24_ReaderStops ==
    /\ (stop_evt /\ HasReader) ~> (rx_pc = "exited")
    /\ [](pc = "c_join" => now <= deadline)
    /\ [][rx_pc = "exited" =>
            /\ rx_pc' = "exited"
            /\ \E n \in 0 .. Len(rx_lines) :
                  rx_lines' = SubSeq(rx_lines, n + 1, Len(rx_lines))]_vars
C24_Witness ==
    /\ CloseEnded
    /\ stop_evt
    /\ rx_pc = "exited"
    /\ ~is_open
    /\ rx_lines # <<>>

\* C25: the reader enqueues only complete lines: every entry of the receive
\* queue is the bytes received up to and including a line terminator, one
\* entry per reply; a read that times out with no byte or with part of a line
\* pushes nothing.
C25_OnlyCompleteLines ==
    HasReader =>
        \A i \in 1 .. Len(rx_lines) :
            /\ EndsWithNewline(rx_lines[i].raw)
            /\ FirstNewline(rx_lines[i].raw) = Len(rx_lines[i].raw)

\* C26: the receive queue is bounded: its length never exceeds its capacity;
\* a push onto a full queue evicts the head and keeps the order of the other
\* entries, with the new line at the tail; the reader that holds the lock can
\* always push (it never blocks on a full queue).
C26_QueueBounded ==
    /\ [](HasReader => Len(rx_lines) <= QueueCap)
    /\ [](rx_pc = "append" => ENABLED RxAppend)
    /\ [][(rx_pc = "append" /\ rx_pc' # "append" /\ Len(rx_lines) = QueueCap) =>
            /\ Len(rx_lines') = QueueCap
            /\ SubSeq(rx_lines', 1, QueueCap - 1) = Tail(rx_lines)
            /\ rx_lines'[QueueCap].raw = rx_raw]_vars
C26_Witness ==
    /\ bus = Bytes_Flood
    /\ nlines = QueueCap + 1
    /\ port = <<>>
    /\ rx_pc = "test"
    /\ sw.popped = <<>>
    /\ op \notin {"flush_rx", "probe"}
    /\ Len(rx_lines) = QueueCap

\* the newest entry of a queue
Newest(q) == q[Len(q)]

\* C28: consumption of the receive queue is strictly forward: the queue
\* changes only when the reader appends one line at the tail, when
\* _pop_rx_line removes the head, which it hands to its caller, or when
\* flush_rx clears it; no consumer puts a line back.
C28_ForwardOnly ==
    [][(engine = "threaded" /\ rx_lines' # rx_lines) =>
          \/ /\ pc' = pc
             /\ HasReader => rx_pc = "append"
             /\ rx_lines' # <<>>
             /\ rx_lines' = DequeAppend(rx_lines, Newest(rx_lines'))
          \/ /\ HasReader => (pc = "p_test" /\ sw'.item = Head(rx_lines))
             /\ pc' # pc
             /\ rx_lines # <<>>
             /\ rx_lines' = Tail(rx_lines)
          \/ /\ HasReader => pc = "f_clear"
             /\ pc' # pc
             /\ rx_lines' = <<>>]_vars
C28_Witness ==
    /\ op = "get_status"
    /\ pc = "q_loop"
    /\ ev.stale
    /\ Len(sw.popped) = 1
    /\ rx_lines # <<>>

\* the lines in the order the reader timestamped them
InOrder(q) == \A i \in 1 .. Len(q) : \A j \in i .. Len(q) : q[i].ts <= q[j].ts

\* C29: the hand-off of the queue is race-free: the queue is read and written
\* only by the thread that holds the lock of the condition; lines reach the
\* consumer in the order the reader received them; _pop_rx_line returns the
\* head at once when the queue is not empty, whatever its timeout, and returns
\* no line only when the queue is empty and the timeout has passed; a line
\* pushed while the consumer waits wakes it (no lost wake-up).
C29_RaceFreeHandOff ==
    /\ [](HasReader => /\ (lock = "reader") <=> (rx_pc = "append")
                       /\ (lock = "caller") <=> (pc \in {"p_test", "f_clear"}))
    /\ [][(HasReader /\ rx_lines' # rx_lines) =>
            (lock # "free" /\ lock' = "free"
                /\ (lock = "reader" => pc' = pc) /\ (lock = "caller" => rx_pc' = rx_pc))]_vars
    /\ [](HasReader => InOrder(sw.popped \o rx_lines))
    /\ [][(pc = "p_test" /\ pc' # pc /\ rx_lines # <<>>) =>
            (pc' = PopReturnsTo /\ sw'.item = Head(rx_lines))]_vars
    /\ [][(pc = "p_test" /\ pc' = PopReturnsTo /\ sw'.item = NoItem) =>
            (rx_lines = <<>> /\ now >= pop_deadline)]_vars
    /\ []((pc = "p_wait" /\ rx_lines # <<>>) => woken)
C29_Witness ==
    /\ op = "pop"
    /\ pc = "p_ret"
    /\ woken
    /\ sw.item # NoItem
    /\ sw.item.ts > 0

\* flush_rx is running (on its own or inside _send_and_wait_one)
InFlush == pc \in {"f_acquire", "f_clear", "f_reset"}

\* a probe, which flushes before it sends, has returned a line
ProbeReturnedLine == op = "probe" /\ pc = "idle" /\ outcome.kind = "line"

\* what flush_rx does: the queue is empty when it releases the lock; it
\* writes nothing and leaves the address and the reader thread alone
FlushEffect ==
    /\ [][(pc = "f_clear" /\ pc' # pc) => (rx_lines' = <<>> /\ lock' = "free")]_vars
    /\ [][((InFlush \/ op' = "flush_rx") /\ pc' # pc) =>
            (wire' = wire /\ address' = address /\ rx_pc' = rx_pc
                /\ stop_evt' = stop_evt /\ is_open' = is_open)]_vars

SessionAddresses == {"0", "1"}

\* what the bus delivers while the queue operations run
SessionByteStreams == {Bytes_Silent, Bytes_Line, Bytes_Split}

\* the state after construction, for the motion and query operations (the
\* reader as one step, rx_pc = "none") and for the queue operations (the
\* reader step by step)
InitSession ==
    /\ now = 0
    /\ rx_lines = <<>>
    /\ engine \in {"threaded", "sync"}
    /\ rx_pc \in (IF engine = "threaded" THEN {"none", "test", "unbuilt"}
                  ELSE {"none", "absent"})
    /\ bus \in (IF rx_pc = "none"
                THEN (IF engine = "sync" THEN Streams \cup StopStreams ELSE Streams)
                ELSE IF rx_pc = "test" THEN SessionByteStreams ELSE {Bytes_Silent})
    /\ nlines = 0
    /\ rx_last = NoTime
    /\ wire = <<>>
    /\ address \in SessionAddresses
    /\ stop_evt = FALSE
    /\ rot = NoRot
    /\ srv = NoSrv
    /\ is_open = (rx_pc # "unbuilt")
    /\ rx_raw = <<>>
    /\ port = <<>>
    /\ lock = "free"
    /\ woken = FALSE
    /\ calls = 0
    /\ settle_s = IF engine = "sync" /\ rx_pc = "none" THEN SyncSettle ELSE 0
    /\ arg = NoArg
    /\ scan = NoScan
    /\ pf = NoPf
    /\ pc = "idle"
    /\ op = "none"
    /\ timeout_s = 0
    /\ deadline = NoTime
    /\ next_poll = NoTime
    /\ pop_deadline = NoTime
    /\ w_time = NoTime
    /\ sw = NoSw
    /\ outcome = NoOutcome
    /\ ev = NoEv
    /\ obs = NoObs

NextSession ==
    \/ rx_pc = "none" /\ Next
    \/ rx_pc = "none" /\ Stop
    \/ rx_pc # "none" /\ NextRx

SpecSession == InitSession /\ [][NextSession]_vars

\* a frame: what _send_raw is handed, other than the lone carriage return
\* of reset_parser
WrittenFrames == {i \in 1 .. Len(wire) : wire[i] # CR}

\* C27: no public operation, however it ends, changes the session's address,
\* and every frame written after construction starts with that address.
C27_AddressImmutable ==
    /\ [][address' = address]_vars
    /\ [](\A i \in WrittenFrames : Head(wire[i]) = address)
C27_Witness ==
    /\ address = "1"
    /\ WrittenFrames # {}
    /\ outcome.res = "error"
    /\ outcome.kind = "timeout"

(* ------------------- discovery on a bus that garbles ------------------- *)

Line_NonHex == <<"0", "G", "S", "Z", "Z">>

\* what the device at address "0" may send in place of a well-formed status
\* reply: a status field that is no hex number, a reply cut short, a reply
\* with another tag
NoiseLines == {Line_NonHex, Line_Short, Line_PO}
NoiseStreams == {[lines |-> <<l>>, loop |-> FALSE] : l \in NoiseLines}

\* the device at address "0" answers the status query with the garbled line
DeviceNoise ==
    /\ pc \notin {"idle", "raised", "st_bound", "done"}
    /\ rx_last < now
    /\ nlines < Len(bus.lines)
    /\ "0" \in scan.owed
    /\ LET item == [ts |-> now, txt |-> bus.lines[nlines + 1]] IN
       rx_lines' = IF engine = "threaded" THEN DequeAppend(rx_lines, item)
                   ELSE Append(rx_lines, item)
    /\ scan' = [scan EXCEPT !.owed = @ \ {"0"}]
    /\ nlines' = nlines + 1
    /\ rx_last' = now
    /\ UNCHANGED <<now, bus, wire, address, settle_s, engine, rot, srv,
                   stop_evt, is_open, rx_pc, rx_raw, port, lock, woken, calls, arg, pf, pc, op, timeout_s,
                   deadline, next_poll, pop_deadline, w_time, sw, outcome, ev, obs>>

\* a constructor without an address, scanning "0" .. max_address, on a bus
\* whose device at "0" may garble its answer
InitScanNoisy ==
    /\ now = 0
    /\ rx_lines = <<>>
    /\ bus \in NoiseStreams
    /\ nlines = 0
    /\ rx_last = NoTime
    /\ wire = <<>>
    /\ address = ""
    /\ engine \in {"threaded", "sync"}
    /\ stop_evt = FALSE
    /\ rot = NoRot
    /\ srv = NoSrv
    /\ is_open = TRUE
    /\ rx_pc = "none"
    /\ rx_raw = <<>>
    /\ port = <<>>
    /\ lock = "free"
    /\ woken = FALSE
    /\ calls = 0
    /\ settle_s = IF engine = "threaded" THEN 0 ELSE SyncSettle
    /\ arg = NoArg
    /\ pf = NoPf
    /\ pc = "new"
    /\ op = "none"
    /\ timeout_s = 0
    /\ deadline = NoTime
    /\ next_poll = NoTime
    /\ pop_deadline = NoTime
    /\ w_time = NoTime
    /\ sw = NoSw
    /\ outcome = NoOutcome
    /\ ev = NoEv
    /\ obs = NoObs
    /\ \E i \in {0, MaxAddress}, devs \in {{}, {"1"}, BusAddresses} :
         scan = [st |-> "new", has_address |-> FALSE, address |-> <<>>,
                 min_address |-> <<"0">>, max_address |-> <<HexChar(i)>>,
                 devices |-> devs \cup {"0"},
                 todo |-> <<>>, cur |-> "", found |-> <<>>, owed |-> {},
                 heard |-> {}]

\* the constructor's thread during a scan
ScanCaller ==
    \/ Open
    \/ ScanProbe
    \/ ScanReturn
    \/ ScanReadLine
    \/ ScanReadTimeout
    \/ ScanEnd
    \/ SyncPollSent
    \/ Correlator

NextScanNoisy ==
    \/ DeviceNoise
    \/ DeviceReply
    \/ Tick
    \/ ScanCaller

SpecScanNoisy == InitScanNoisy /\ [][NextScanNoisy]_vars

\* the constructor's thread is scheduled and the monotonic clock advances
SpecScanNoisyLive == SpecScanNoisy /\ WF_vars(ScanCaller) /\ WF_vars(Tick)

\* the addresses _find_addresses returned
Found == {scan.found[i] : i \in 1 .. Len(scan.found)}

\* the addresses whose status query has been written
Probed == {wire[i][1] : i \in {j \in 1 .. Len(wire) : wire[j] # CR}}

\* the device at "0" has sent its garbled answer
Garbled == nlines > 0

\* C31: whatever arrives during discovery, _find_addresses ends, raises
\* nothing (the constructor raises only by its binding policy), has probed
\* every address of the range, and has left out the address whose answer was
\* garbled.
C31_ScanNeverFails ==
    /\ <>(scan.st = "scanned")
    /\ [](pc = "raised" => (scan.st = "scanned" /\ outcome.kind \in {"nodevice", "ambiguous"}))
    /\ [](scan.st = "scanned" =>
            Probed = {HexChar(i) : i \in 0 .. HexDigitValue(scan.max_address[1])})
    /\ []((scan.st = "scanned" /\ Garbled) => "0" \notin Found)

\* C32: a motion call raises a timeout error only once its own deadline has
\* passed; a status poll that is not answered, or a quiet bus, does not make
\* it fail earlier.
C32_TimeoutOnlyAtDeadline ==
    (Move /\ pc = "raised" /\ outcome.kind = "timeout") => now >= deadline

\* C33: an OK Status of the bound address that the motion wait takes off the
\* queue, or gets as the answer of its status poll, ends the call as DONE at
\* once: no Position line is waited for, and no frame is written by the step
\* that takes the line or after it.
C33_OkStatusIsDone ==
    /\ [](Consumed(Line_GS00) => (pc = "done" /\ outcome.res = "done"))
    /\ [][(op = "move" /\ pc # "done" /\ pc' = "done") => wire' = wire]_vars
    /\ [][(op = "move" /\ pc = "done") => wire' = wire]_vars
C33_Witness ==
    /\ Move
    /\ Consumed(Line_GS00)
    /\ ev.path = "poll"
    /\ ~obs.po
    /\ pc = "done"

\* a line the reader queued before the motion command was written: the
\* caller was still idle, which it is only at time 0
LeftOver(item) == obs.pre /\ item # NoItem /\ item.ts = 0

\* the motion call resolves in this step (DONE, or FAILED by a reply)
Resolves ==
    /\ op = "move"
    /\ pc \notin {"done", "raised"}
    /\ pc' \in {"done", "raised"}
    /\ outcome'.kind # "timeout"

\* C34: the line on which a motion call resolves - taken off the queue by the
\* wait loop or handed back by its status poll - was received after the
\* motion command was written, never left over from before.
C34_NoLeftOverResolves ==
    /\ [][(Resolves /\ pc \in {"w_pop", "y_read"}) => ~LeftOver(Head(rx_lines))]_vars
    /\ [][(Resolves /\ pc = "sw_ret") => ~LeftOver(sw.item)]_vars

(* ------------------- queries with a settle delay set ------------------- *)

\* the longest settle_s a session is constructed with, in ticks
MaxSettle == 2

\* a session of elliptec_trace.py constructed with settle_s >= 0
InitSettle ==
    /\ now = 0
    /\ rx_lines = <<>>
    /\ bus \in {Stream_Ok, Stream_Velocity, Stream_Ignored, Stream_Silent}
    /\ nlines = 0
    /\ rx_last = NoTime
    /\ wire = <<>>
    /\ address = "0"
    /\ engine = "threaded"
    /\ stop_evt = FALSE
    /\ rot = NoRot
    /\ srv = NoSrv
    /\ is_open = TRUE
    /\ rx_pc = "none"
    /\ rx_raw = <<>>
    /\ port = <<>>
    /\ lock = "free"
    /\ woken = FALSE
    /\ calls = 0
    /\ settle_s \in 0 .. MaxSettle
    /\ arg = NoArg
    /\ scan = NoScan
    /\ pf = NoPf
    /\ pc = "idle"
    /\ op = "none"
    /\ timeout_s = 0
    /\ deadline = NoTime
    /\ next_poll = NoTime
    /\ pop_deadline = NoTime
    /\ w_time = NoTime
    /\ sw = NoSw
    /\ outcome = NoOutcome
    /\ ev = NoEv
    /\ obs = NoObs

NextSettle ==
    \/ RxLine
    \/ Tick
    \/ Query
    \/ Correlator

SpecSettle == InitSettle /\ [][NextSettle]_vars

\* the line _send_and_wait_one has just dropped as stale
Dropped == sw.popped[Len(sw.popped)]

\* C35: when every line was received after the command was written, a line
\* _send_and_wait_one drops as stale was received before the flush had
\* ended, that is, before the settle sleep that ends at the send timestamp
\* began; this for every settle_s >= 0.
C35_NoGenuineReplyDropped ==
    (op \in QueryOps /\ ~obs.pre /\ ev.stale /\ pc = "sw_loop") =>
        Dropped.ts < sw.tx_ts - settle_s

\* the constructor of a session has raised
OpenFailed == engine \in {"threaded", "sync"} /\ scan.st # "none" /\ pc = "raised"

\* C36: when the constructor raises, the serial connection it opened is
\* closed and the reader thread it started (elliptec_trace.py) has been told
\* to stop.
C36_FailedOpenReleases ==
    OpenFailed => (~is_open /\ (engine = "threaded" => stop_evt))

\* ---------------------------------------------------------------------------
\* Rotator (elliptec_ell14.py, elliptec_ell14_copy.py): the angle layer above
\* the device session.  Angles are whole degrees; Angle(..., wrap = False)
\* of elliptec_ell14.py is plain addition, and the copy is modelled with the
\* same arithmetic.  The device session below the rotator is idle here: a
\* move_relative or a get_position_counts either returns or raises.
\* ---------------------------------------------------------------------------
DeviceVars == <<now, rx_lines, bus, nlines, rx_last, wire, address, settle_s,
                engine, stop_evt, is_open, rx_pc, rx_raw, port, lock, woken,
                calls, arg, scan, pf, pc, op, timeout_s, deadline, next_poll,
                pop_deadline, w_time, sw, outcome, ev, obs>>

DeviceUnused ==
    /\ now = 0
    /\ rx_lines = <<>>
    /\ bus = Stream_Silent
    /\ nlines = 0
    /\ rx_last = NoTime
    /\ wire = <<>>
    /\ address = "0"
    /\ engine = "threaded"
    /\ stop_evt = FALSE
    /\ is_open = TRUE
    /\ rx_pc = "none"
    /\ rx_raw = <<>>
    /\ port = <<>>
    /\ lock = "free"
    /\ woken = FALSE
    /\ calls = 0
    /\ settle_s = 0
    /\ arg = NoArg
    /\ scan = NoScan
    /\ pf = NoPf
    /\ pc = "idle"
    /\ op = "none"
    /\ timeout_s = 0
    /\ deadline = NoTime
    /\ next_poll = NoTime
    /\ pop_deadline = NoTime
    /\ w_time = NoTime
    /\ sw = NoSw
    /\ outcome = NoOutcome
    /\ ev = NoEv
    /\ obs = NoObs

COUNTS_PER_REV == 262144
ANGLE_RANGE_MIN == -90
ANGLE_RANGE_MAX == 90
OUT_OF_RANGE_RELATIVE_ANGLE == 90

\* The number of rotate calls of one run.
MaxRotations == 3

\* The angles a caller asks for, in degrees; 30 is not a whole number of
\* counts, 135 is larger than the correction.
RotateAngles == {-90, -45, 0, 30, 45, 90, 135}

RotatorVariants == {"ell14", "copy"}

\* int(round(angle.Rad / (2 pi) * COUNTS_PER_REV)); no angle in whole degrees
\* falls on a tie.
angle_to_counts(deg) == (2 * deg * COUNTS_PER_REV + 360) \div 720

is_in_range(deg) == ANGLE_RANGE_MIN <= deg /\ deg <= ANGLE_RANGE_MAX

\* The correction _validate_new_delta_angle moves by, 0 for none.
correction(new_angle) ==
    IF is_in_range(new_angle) THEN 0
    ELSE IF new_angle > ANGLE_RANGE_MAX THEN -OUT_OF_RANGE_RELATIVE_ANGLE
    ELSE OUT_OF_RANGE_RELATIVE_ANGLE

InitRotator ==
    /\ DeviceUnused
    /\ srv = NoSrv
    /\ \E v \in RotatorVariants :
           rot = [st |-> "built", variant |-> v, current_angle |-> 0,
                  completed |-> 0, rpc |-> "idle", angle |-> 0, start |-> 0,
                  delta |-> 0, sent |-> <<>>, ret |-> "none", ncalls |-> 0,
                  large |-> FALSE]

\* rotate(angle) up to its first device call: angle 0 returns, otherwise the
\* validation chooses between the correction and the move itself.
rotate(angle) ==
    /\ rot.st = "built"
    /\ rot.rpc = "idle"
    /\ rot.ncalls < MaxRotations
    /\ LET new_angle == rot.current_angle + angle
           called == [rot EXCEPT !.angle = angle,
                                 !.start = rot.current_angle,
                                 !.sent = <<>>,
                                 !.ncalls = @ + 1,
                                 !.large = @ \/ angle > OUT_OF_RANGE_RELATIVE_ANGLE
                                             \/ -angle > OUT_OF_RANGE_RELATIVE_ANGLE]
       IN  IF angle = 0
           THEN rot' = [called EXCEPT !.ret = "done"]
           ELSE IF correction(new_angle) = 0
           THEN rot' = [called EXCEPT !.rpc = "main_move", !.delta = angle,
                                      !.ret = "none"]
           ELSE rot' = [called EXCEPT !.rpc = "corr_move",
                                      !.delta = correction(new_angle),
                                      !.ret = "none"]
    /\ UNCHANGED <<DeviceVars, srv>>

\* What follows a _move_relative that has returned.
AfterMove(r) ==
    IF r.rpc \in {"corr_move", "corr_print"}
    THEN [r EXCEPT !.rpc = "main_move", !.delta = r.angle]
    ELSE [r EXCEPT !.rpc = "idle", !.ret = "done"]

\* self.move_relative(counts) returns.  The copy updates the tracked angle
\* in the next statement; elliptec_ell14.py first prints the position.
move_relative_returns ==
    /\ rot.st = "built"
    /\ rot.rpc \in {"corr_move", "main_move"}
    /\ LET moved == [rot EXCEPT !.sent = Append(@, angle_to_counts(rot.delta)),
                                !.completed = @ + rot.delta]
       IN  IF rot.variant = "copy"
           THEN rot' = AfterMove([moved EXCEPT !.current_angle = @ + rot.delta])
           ELSE rot' = [moved EXCEPT
                            !.rpc = IF rot.rpc = "corr_move" THEN "corr_print"
                                    ELSE "main_print"]
    /\ UNCHANGED <<DeviceVars, srv>>

\* self.move_relative(counts) raises: rotate raises with it.
move_relative_raises ==
    /\ rot.st = "built"
    /\ rot.rpc \in {"corr_move", "main_move"}
    /\ rot' = [rot EXCEPT !.sent = Append(@, angle_to_counts(rot.delta)),
                          !.rpc = "idle", !.ret = "error"]
    /\ UNCHANGED <<DeviceVars, srv>>

\* print(self.get_position_counts()) returns, and the tracked angle is
\* updated.
get_position_returns ==
    /\ rot.st = "built"
    /\ rot.rpc \in {"corr_print", "main_print"}
    /\ rot' = AfterMove([rot EXCEPT !.current_angle = @ + rot.delta])
    /\ UNCHANGED <<DeviceVars, srv>>

\* print(self.get_position_counts()) raises: the update is not reached.
get_position_raises ==
    /\ rot.st = "built"
    /\ rot.rpc \in {"corr_print", "main_print"}
    /\ rot' = [rot EXCEPT !.rpc = "idle", !.ret = "error"]
    /\ UNCHANGED <<DeviceVars, srv>>

NextRotator ==
    \/ \E angle \in RotateAngles : rotate(angle)
    \/ move_relative_returns
    \/ move_relative_raises
    \/ get_position_returns
    \/ get_position_raises

SpecRotator == InitRotator /\ [][NextRotator]_vars

Rotating == rot.st = "built"

\* The moves the claim expects of a rotate call that returns.
ExpectedMoves(start, angle) ==
    IF angle = 0 THEN <<>>
    ELSE IF is_in_range(start + angle) THEN <<angle_to_counts(angle)>>
    ELSE IF start + angle > ANGLE_RANGE_MAX
    THEN <<angle_to_counts(-OUT_OF_RANGE_RELATIVE_ANGLE), angle_to_counts(angle)>>
    ELSE <<angle_to_counts(OUT_OF_RANGE_RELATIVE_ANGLE), angle_to_counts(angle)>>

\* C37 (pattern): a rotate call that has returned sent no move for angle 0,
\* one move of angle when the new angle is in range, and otherwise the
\* correction followed by angle.
C37_MovePattern ==
    (Rotating /\ rot.rpc = "idle" /\ rot.ret = "done") =>
        rot.sent = ExpectedMoves(rot.start, rot.angle)

\* C37 (range): while no requested angle was larger than the correction,
\* the tracked angle stays in the configured range.
C37_TrackedInRange ==
    (Rotating /\ ~rot.large) => is_in_range(rot.current_angle)

\* C37 (sum): between rotate calls the tracked angle is the sum of the moves
\* that completed without error.
C37_TrackedIsSumOfMoves ==
    (Rotating /\ rot.rpc = "idle") => rot.current_angle = rot.completed

\* C37: rotate sends its moves in the fixed pattern, the tracked angle is
\* the sum of the completed moves, and it stays in range for requested
\* angles no larger than the correction.
C37_RotatePatternAndTracking ==
    /\ C37_MovePattern
    /\ C37_TrackedIsSumOfMoves
    /\ C37_TrackedInRange

\* The sum for the copy alone, whose update follows the move directly.
C37_CopyTracksSum ==
    (Rotating /\ rot.variant = "copy" /\ rot.rpc = "idle") =>
        rot.current_angle = rot.completed

\* ---------------------------------------------------------------------------
\* SpectrometerServer (spm_002/spectrometer_server.py): the stdin thread runs
\* on_message for one message at a time, the acquisition thread runs main.
\* Every statement that touches the configuration, its lock or one of the
\* events is a step of its own.  The configuration is two of its fields;
\* the k-th SET_CONFIG sets both to k, the defaults are 0.
\* JsonlStdioAppBase and Spectrometer are not part of the sources: stop()
\* sets the stop event handed to main, reply() and emit() write one message,
\* the spectrometer's calls return.
\* ---------------------------------------------------------------------------

\* The number of messages the stdin thread reads in one run.
MaxMessages == 3

\* The number of emitted messages that are recorded.
MaxOut == 4

MessageKinds == {"SET_CONFIG", "SHUTDOWN", "OTHER"}

DefaultCfg == [a |-> 0, b |-> 0]
NoCfg == [a |-> -1, b |-> -1]

InitServer ==
    /\ DeviceUnused
    /\ rot = NoRot
    /\ srv = [st |-> "built", cfg |-> DefaultCfg, cfg_lock |-> "free",
              cfg_ready |-> FALSE, cfg_dirty |-> FALSE, stop_event |-> FALSE,
              ipc |-> "i_idle", received |-> 0, nset |-> 0, accepted |-> 0,
              acks |-> 0, mpc |-> "m_wait", then |-> "none", snap |-> NoCfg,
              applied |-> NoCfg, configured |-> FALSE, out |-> <<>>]

Serving == srv.st = "built"

emit(out, type) == IF Len(out) < MaxOut THEN Append(out, type) ELSE out

\* on_message is called with the next message: anything but a SHUTDOWN or
\* SET_CONFIG command returns at once.
on_message(kind) ==
    /\ Serving
    /\ srv.ipc = "i_idle"
    /\ srv.received < MaxMessages
    /\ srv' = [srv EXCEPT !.received = @ + 1,
                          !.nset = IF kind = "SET_CONFIG" THEN @ + 1 ELSE @,
                          !.ipc = CASE kind = "SHUTDOWN" -> "i_shutdown"
                                    [] kind = "SET_CONFIG" -> "i_lock"
                                    [] OTHER -> "i_idle"]
    /\ UNCHANGED <<DeviceVars, rot>>

\* SHUTDOWN: self.reply(ACK).
ShutdownAck ==
    /\ Serving
    /\ srv.ipc = "i_shutdown"
    /\ srv' = [srv EXCEPT !.acks = @ + 1, !.ipc = "i_stop"]
    /\ UNCHANGED <<DeviceVars, rot>>

\* SHUTDOWN: self.stop(), then return.
ShutdownStop ==
    /\ Serving
    /\ srv.ipc = "i_stop"
    /\ srv' = [srv EXCEPT !.stop_event = TRUE, !.ipc = "i_idle"]
    /\ UNCHANGED <<DeviceVars, rot>>

\* SET_CONFIG: with self._cfg_lock.
SetConfigLock ==
    /\ Serving
    /\ srv.ipc = "i_lock"
    /\ srv.cfg_lock = "free"
    /\ srv' = [srv EXCEPT !.cfg_lock = "stdin", !.ipc = "i_update_a"]
    /\ UNCHANGED <<DeviceVars, rot>>

\* update_from_json sets the fields one after the other.
SetConfigUpdateA ==
    /\ Serving
    /\ srv.ipc = "i_update_a"
    /\ srv' = [srv EXCEPT !.cfg.a = srv.nset, !.ipc = "i_update_b"]
    /\ UNCHANGED <<DeviceVars, rot>>

\* The last field is set and the lock is released.
SetConfigUpdateB ==
    /\ Serving
    /\ srv.ipc = "i_update_b"
    /\ srv' = [srv EXCEPT !.cfg.b = srv.nset, !.cfg_lock = "free",
                          !.accepted = srv.nset, !.ipc = "i_ready"]
    /\ UNCHANGED <<DeviceVars, rot>>

\* self._cfg_ready.set()
SetConfigReady ==
    /\ Serving
    /\ srv.ipc = "i_ready"
    /\ srv' = [srv EXCEPT !.cfg_ready = TRUE, !.ipc = "i_dirty"]
    /\ UNCHANGED <<DeviceVars, rot>>

\* self._cfg_dirty.set()
SetConfigDirty ==
    /\ Serving
    /\ srv.ipc = "i_dirty"
    /\ srv' = [srv EXCEPT !.cfg_dirty = TRUE, !.ipc = "i_ack"]
    /\ UNCHANGED <<DeviceVars, rot>>

\* self.reply(ACK), then return.
SetConfigAck ==
    /\ Serving
    /\ srv.ipc = "i_ack"
    /\ srv' = [srv EXCEPT !.acks = @ + 1, !.ipc = "i_idle"]
    /\ UNCHANGED <<DeviceVars, rot>>

\* self._cfg_ready.wait() returns, and the stop event is tested.
MainWait ==
    /\ Serving
    /\ srv.mpc = "m_wait"
    /\ srv.cfg_ready
    /\ srv' = [srv EXCEPT !.mpc = "m_stopped"]
    /\ UNCHANGED <<DeviceVars, rot>>

\* if stop_event.is_set(): return; otherwise the first snapshot is taken.
MainStopTest ==
    /\ Serving
    /\ srv.mpc = "m_stopped"
    /\ srv' = IF srv.stop_event
              THEN [srv EXCEPT !.mpc = "m_returned"]
              ELSE [srv EXCEPT !.mpc = "m_lock", !.then = "construct"]
    /\ UNCHANGED <<DeviceVars, rot>>

\* A snapshot that does not wait for the lock.
SnapshotLockFree ==
    /\ Serving
    /\ srv.mpc = "m_lock"
    /\ srv' = [srv EXCEPT !.mpc = "m_read_a"]
    /\ UNCHANGED <<DeviceVars, rot>>

\* _cfg_snapshot: with self._cfg_lock.
SnapshotLock ==
    /\ Serving
    /\ srv.mpc = "m_lock"
    /\ srv.cfg_lock = "free"
    /\ srv' = [srv EXCEPT !.cfg_lock = "main", !.mpc = "m_read_a"]
    /\ UNCHANGED <<DeviceVars, rot>>

\* to_json reads the fields one after the other.
SnapshotReadA ==
    /\ Serving
    /\ srv.mpc = "m_read_a"
    /\ srv' = [srv EXCEPT !.snap.a = srv.cfg.a, !.mpc = "m_read_b"]
    /\ UNCHANGED <<DeviceVars, rot>>

\* The last field is read and the lock is released.
SnapshotReadB ==
    /\ Serving
    /\ srv.mpc = "m_read_b"
    /\ srv' = [srv EXCEPT !.snap.b = srv.cfg.b,
                          !.cfg_lock = IF @ = "main" THEN "free" ELSE @,
                          !.mpc = IF srv.then = "construct" THEN "m_construct"
                                  ELSE "m_configure"]
    /\ UNCHANGED <<DeviceVars, rot>>

\* Spectrometer(config = snapshot), spec.acquire_spectrum() and
\* self.emit(self._meta(first)).
MainConstruct ==
    /\ Serving
    /\ srv.mpc = "m_construct"
    /\ srv' = [srv EXCEPT !.applied = srv.snap, !.out = emit(@, "META"),
                          !.mpc = "m_first"]
    /\ UNCHANGED <<DeviceVars, rot>>

\* self.emit(self._frame(first))
MainFirstFrame ==
    /\ Serving
    /\ srv.mpc = "m_first"
    /\ srv' = [srv EXCEPT !.out = emit(@, "FRAME"), !.mpc = "m_loop"]
    /\ UNCHANGED <<DeviceVars, rot>>

\* while not stop_event.is_set(); leaving the loop closes the spectrometer
\* and returns.
MainLoopTest ==
    /\ Serving
    /\ srv.mpc = "m_loop"
    /\ srv' = IF srv.stop_event
              THEN [srv EXCEPT !.mpc = "m_returned"]
              ELSE [srv EXCEPT !.mpc = "m_dirty"]
    /\ UNCHANGED <<DeviceVars, rot>>

\* if self._cfg_dirty.is_set()
MainDirtyTest ==
    /\ Serving
    /\ srv.mpc = "m_dirty"
    /\ srv' = IF srv.cfg_dirty
              THEN [srv EXCEPT !.mpc = "m_clear"]
              ELSE [srv EXCEPT !.mpc = "m_frame"]
    /\ UNCHANGED <<DeviceVars, rot>>

\* self._cfg_dirty.clear(), then the snapshot for configure.
MainDirtyClear ==
    /\ Serving
    /\ srv.mpc = "m_clear"
    /\ srv' = [srv EXCEPT !.cfg_dirty = FALSE, !.mpc = "m_lock",
                          !.then = "configure"]
    /\ UNCHANGED <<DeviceVars, rot>>

\* A configure that announces the device again.
MainConfigureMeta ==
    /\ Serving
    /\ srv.mpc = "m_configure"
    /\ srv' = [srv EXCEPT !.applied = srv.snap, !.configured = TRUE,
                          !.out = emit(@, "META"), !.mpc = "m_frame"]
    /\ UNCHANGED <<DeviceVars, rot>>

\* spec.configure(snapshot)
MainConfigure ==
    /\ Serving
    /\ srv.mpc = "m_configure"
    /\ srv' = [srv EXCEPT !.applied = srv.snap, !.configured = TRUE,
                          !.mpc = "m_frame"]
    /\ UNCHANGED <<DeviceVars, rot>>

\* self.emit(self._frame(spec.acquire_spectrum()))
MainFrame ==
    /\ Serving
    /\ srv.mpc = "m_frame"
    /\ srv' = [srv EXCEPT !.out = emit(@, "FRAME"), !.mpc = "m_loop"]
    /\ UNCHANGED <<DeviceVars, rot>>

\* The steps of on_message once it has been called.
StdinThread ==
    \/ ShutdownAck
    \/ ShutdownStop
    \/ SetConfigLock
    \/ SetConfigUpdateA
    \/ SetConfigUpdateB
    \/ SetConfigReady
    \/ SetConfigDirty
    \/ SetConfigAck

\* The steps of main.
MainThread ==
    \/ MainWait
    \/ MainStopTest
    \/ SnapshotLock
    \/ SnapshotReadA
    \/ SnapshotReadB
    \/ MainConstruct
    \/ MainFirstFrame
    \/ MainLoopTest
    \/ MainDirtyTest
    \/ MainDirtyClear
    \/ MainConfigure
    \/ MainFrame

NextServer ==
    \/ \E kind \in MessageKinds : on_message(kind)
    \/ StdinThread
    \/ MainThread

SpecServer == InitServer /\ [][NextServer]_vars

\* Both threads are scheduled; whether another message arrives is up to the
\* client.
SpecServerLive == SpecServer /\ WF_vars(StdinThread) /\ WF_vars(MainThread)

MainReturned == srv.mpc = "m_returned"

\* C38: once on_message has handled a SHUTDOWN (stop() has been called),
\* main eventually returns, with or without a SET_CONFIG before it.
C38_ShutdownReturns ==
    srv.stop_event ~> MainReturned

\* The same once a SET_CONFIG has released main from its wait.
C38_ShutdownReturnsIfConfigured ==
    (srv.stop_event /\ srv.cfg_ready) ~> MainReturned

\* main never leaves its wait before a SET_CONFIG has set _cfg_ready.
C38_WaitNeedsConfig ==
    (Serving /\ ~srv.cfg_ready) => srv.mpc = "m_wait"

\* A configuration is whole when both fields come from the same SET_CONFIG
\* (or both are defaults).
Whole(c) == c.a = c.b

\* C39: every configuration applied to the spectrometer is whole, and every
\* accepted SET_CONFIG is eventually part of an applied configuration
\* unless the loop is stopped.
C39_NoLostUpdate ==
    /\ [](Serving => Whole(srv.applied))
    /\ \A k \in 1 .. MaxMessages :
           (srv.accepted >= k) ~> (srv.applied.a >= k \/ srv.stop_event)

\* A second SET_CONFIG has reached the spectrometer through configure().
C39_Witness ==
    /\ Serving
    /\ srv.accepted = 2
    /\ srv.configured
    /\ srv.applied = [a |-> 2, b |-> 2]
    /\ ~srv.stop_event

\* C40: main emits nothing before a SET_CONFIG has been received; what it
\* emits is one META followed by FRAMEs only, also after configure(); and
\* once a SET_CONFIG has been received the META is emitted unless the
\* server is stopped.
C40_OutputOrdering ==
    /\ []((Serving /\ srv.nset = 0) => srv.out = <<>>)
    /\ []((Serving /\ srv.out # <<>>) =>
             /\ srv.out[1] = "META"
             /\ \A i \in 2 .. Len(srv.out) : srv.out[i] = "FRAME")
    /\ (srv.nset > 0) ~> (srv.out # <<>> \/ srv.stop_event)

\* A FRAME has been emitted after a reconfiguration.
C40_Witness ==
    /\ Serving
    /\ srv.configured
    /\ srv.mpc = "m_loop"
    /\ Len(srv.out) >= 3
    /\ srv.out[1] = "META"

====
